---------------------------- MODULE Spec2Model ----------------------------
(***************************************************************************)
(* A model of the workspace watcher of mcp-language-server                 *)
(* (src/internal/watcher/watcher.go): the registration store, the          *)
(* exclusion policy, the glob matcher, the debounce coalescer and the      *)
(* watch loop, with the filesystem, the fsnotify event source, the timers  *)
(* of the Go runtime and the LSP client as the environment; and of the     *)
(* tool functions that resolve and render scopes: the scope search and the *)
(* rendering of FindReferences (src/internal/tools/find-references.go) and *)
(* the range extension of GetFullDefinition (src/unnamed/part_000).        *)
(*                                                                         *)
(* Strings of the program are sequences of one-character strings, so that  *)
(* prefixes, suffixes, base names and extensions are computed as the code  *)
(* computes them.                                                          *)
(***************************************************************************)
EXTENDS Integers, Sequences, FiniteSets, TLC

(***************************************************************************)
(* The string functions of Go's strings and path/filepath packages that    *)
(* the watcher calls.                                                      *)
(***************************************************************************)
MinOf(S) == CHOOSE i \in S : \A j \in S : i <= j

MaxOf(S) == CHOOSE i \in S : \A j \in S : j <= i

\* The least member of a set of positions, 0 for none.
FirstOf(S) == IF S = {} THEN 0 ELSE MinOf(S)

\* The greatest member of a set of positions, 0 for none.
LastOf(S) == IF S = {} THEN 0 ELSE MaxOf(S)

HasPrefix(s, p) == Len(p) <= Len(s) /\ SubSeq(s, 1, Len(p)) = p

HasSuffix(s, x) == Len(x) <= Len(s) /\ SubSeq(s, Len(s) - Len(x) + 1, Len(s)) = x

TrimPrefix(s, p) == IF HasPrefix(s, p) THEN SubSeq(s, Len(p) + 1, Len(s)) ELSE s

\* strings.Index, 1-based; 0 when sep does not occur in s.
Index(s, sep) ==
    FirstOf({i \in 1..(Len(s) - Len(sep) + 1) : SubSeq(s, i, i + Len(sep) - 1) = sep})

Contains(s, sep) == Index(s, sep) # 0

\* s cut at an occurrence of an n-character separator at position i.
CutAt(s, n, i) ==
    IF i = 0 THEN <<s>> ELSE <<SubSeq(s, 1, i - 1), SubSeq(s, i + n, Len(s))>>

\* strings.SplitN(s, sep, 2)
SplitN2(s, sep) == CutAt(s, Len(sep), Index(s, sep))

\* strings.Split
RECURSIVE Split(_, _)
SplitRest(cut, sep) ==
    IF Len(cut) = 1 THEN cut ELSE <<cut[1]>> \o Split(cut[2], sep)

Split(s, sep) == SplitRest(SplitN2(s, sep), sep)

\* strings.Join
RECURSIVE Join(_, _)
Join(parts, sep) ==
    IF Len(parts) = 0 THEN <<>>
    ELSE IF Len(parts) = 1 THEN parts[1]
    ELSE parts[1] \o sep \o Join(Tail(parts), sep)

\* The position of the last "/" of s, 0 when there is none.
LastSlash(s) == LastOf({i \in 1..Len(s) : s[i] = "/"})

RECURSIVE StripTrailingSlashes(_)
StripTrailingSlashes(s) ==
    IF Len(s) > 0 /\ s[Len(s)] = "/" THEN StripTrailingSlashes(SubSeq(s, 1, Len(s) - 1))
    ELSE s

\* The last element of a path without trailing slashes.
LastElement(p) == SubSeq(p, LastSlash(p) + 1, Len(p))

OrSlash(q) == IF q = <<>> THEN <<"/">> ELSE q

\* filepath.Base
Base(path) ==
    IF path = <<>> THEN <<".">>
    ELSE OrSlash(LastElement(StripTrailingSlashes(path)))

\* The suffix of s from position i, empty for i = 0.
SuffixFrom(s, i) == IF i = 0 THEN <<>> ELSE SubSeq(s, i, Len(s))

\* filepath.Ext: the suffix that starts at the last dot of the last element.
Ext(path) ==
    SuffixFrom(path, LastOf({i \in (LastSlash(path) + 1)..Len(path) : path[i] = "."}))

\* strings.ToLower, on the letters of the model's alphabet.
LowerChar(c) ==
    CASE c = "A" -> "a" [] c = "B" -> "b" [] c = "E" -> "e" [] c = "G" -> "g"
      [] c = "O" -> "o" [] OTHER -> c

ToLower(s) == [i \in 1..Len(s) |-> LowerChar(s[i])]

\* filepath.Dir, for a cleaned path below the root.
Dir(path) == SubSeq(path, 1, LastSlash(path) - 1)

\* filepath.ToSlash: the separator of the model's platform is "/" already.
ToSlash(path) == path

RECURSIVE CommonPrefixLen(_, _)
CommonPrefixLen(a, b) ==
    IF Len(a) = 0 \/ Len(b) = 0 \/ a[1] # b[1] THEN 0
    ELSE 1 + CommonPrefixLen(Tail(a), Tail(b))

\* The relative path from elements bs to elements ts, which share n leading
\* elements: one ".." for each remaining element of bs, then the rest of ts.
RelElements(bs, ts, n) ==
    Join([i \in 1..(Len(bs) - n) |-> <<".", ".">>] \o SubSeq(ts, n + 1, Len(ts)), <<"/">>)

RelOf(bs, ts) == RelElements(bs, ts, CommonPrefixLen(bs, ts))

\* filepath.Rel(base, target) for cleaned absolute paths.
Rel(base, target) ==
    IF base = target THEN <<".">>
    ELSE RelOf(Split(base, <<"/">>), Split(target, <<"/">>))

(***************************************************************************)
(* filepath.Match of the Go standard library, the fallback of              *)
(* matchesSimpleGlob: "*" and "?" do not cross a "/", "[...]" is a         *)
(* character class and "\" quotes the next character. A malformed pattern  *)
(* is an error, which the caller turns into false.                         *)
(***************************************************************************)
Alphabet ==
    <<".", "/", "0", "1", "A", "B", "E", "G", "O", "a", "b", "c", "d", "e", "g",
      "m", "n", "o", "s", "t", "u", "w", "x", "~">>

\* The rank of a character (its code point order within the model's alphabet).
Ord(c) == FirstOf({i \in 1..Len(Alphabet) : Alphabet[i] = c})

BadEsc == [ok |-> FALSE, c |-> "", rest |-> <<>>]

\* getEsc: one class character, possibly quoted; ok is FALSE on a bad pattern.
GetEsc(chunk) ==
    IF chunk = <<>> \/ chunk[1] = "-" \/ chunk[1] = "]" THEN BadEsc
    ELSE IF chunk[1] = "\\"
         THEN IF Len(chunk) < 2 THEN BadEsc
              ELSE [ok |-> Len(chunk) > 2, c |-> chunk[2], rest |-> SubSeq(chunk, 3, Len(chunk))]
    ELSE [ok |-> Len(chunk) > 1, c |-> chunk[1], rest |-> Tail(chunk)]

BadClass == [ok |-> FALSE, matched |-> FALSE, rest |-> <<>>]

\* The ranges of a class, from after "[" (and "^") up to the closing "]".
RECURSIVE ClassScan(_, _, _, _)
ClassRangeHi(lo, hi, r, nrange, matched) ==
    IF ~hi.ok THEN BadClass
    ELSE ClassScan(hi.rest, r, nrange + 1,
                   matched \/ (Ord(lo.c) <= Ord(r) /\ Ord(r) <= Ord(hi.c)))

ClassRange(lo, r, nrange, matched) ==
    IF ~lo.ok THEN BadClass
    ELSE IF lo.rest[1] = "-"
         THEN ClassRangeHi(lo, GetEsc(Tail(lo.rest)), r, nrange, matched)
    ELSE ClassScan(lo.rest, r, nrange + 1, matched \/ lo.c = r)

ClassScan(chunk, r, nrange, matched) ==
    IF chunk # <<>> /\ chunk[1] = "]" /\ nrange > 0
    THEN [ok |-> TRUE, matched |-> matched, rest |-> Tail(chunk)]
    ELSE ClassRange(GetEsc(chunk), r, nrange, matched)

\* The class after "[": negated by a leading "^".
ClassOf(rest, r) ==
    IF rest # <<>> /\ rest[1] = "^"
    THEN [neg |-> TRUE, cls |-> ClassScan(Tail(rest), r, 0, FALSE)]
    ELSE [neg |-> FALSE, cls |-> ClassScan(rest, r, 0, FALSE)]

RECURSIVE Match(_, _)
MatchClass(k, name) ==
    k.cls.ok /\ k.cls.matched # k.neg /\ Match(k.cls.rest, Tail(name))

MatchFrom(c, rest, name) ==
    CASE c = "*" ->
           \E k \in 0..Len(name) :
               /\ \A i \in 1..k : name[i] # "/"
               /\ Match(rest, SubSeq(name, k + 1, Len(name)))
      [] c = "?" ->
           name # <<>> /\ name[1] # "/" /\ Match(rest, Tail(name))
      [] c = "[" ->
           name # <<>> /\ MatchClass(ClassOf(rest, name[1]), name)
      [] c = "\\" ->
           /\ rest # <<>> /\ name # <<>>
           /\ rest[1] = name[1] /\ Match(Tail(rest), Tail(name))
      [] OTHER ->
           name # <<>> /\ c = name[1] /\ Match(rest, Tail(name))

Match(pattern, name) ==
    IF pattern = <<>> THEN name = <<>>
    ELSE MatchFrom(pattern[1], Tail(pattern), name)

(***************************************************************************)
(* The pattern matcher.                                                    *)
(***************************************************************************)
\* Some trailing join of the path's components ends with rest.
ComponentSuffix(pathComponents, rest) ==
    \E i \in 1..Len(pathComponents) :
        HasSuffix(Join(SubSeq(pathComponents, i, Len(pathComponents)), <<"/">>), rest)

\* A pattern "**/" rest.
matchesDoubleStarSlash(rest, path) ==
    IF HasPrefix(rest, <<"*", ".">>)
    THEN HasSuffix(path, TrimPrefix(rest, <<"*">>))
    ELSE HasSuffix(path, rest) \/ ComponentSuffix(Split(path, <<"/">>), rest)

\* A pattern without a leading "**/": parts is the pattern split at "**",
\* star whether "**" occurs in it.
matchesParts(pattern, path, parts, star) ==
    IF star /\ ~HasPrefix(path, parts[1]) /\ parts[1] # <<>> THEN FALSE
    ELSE IF star /\ Len(parts) = 2 /\ parts[1] = <<>> THEN HasSuffix(path, parts[2])
    ELSE IF star /\ Len(parts) = 2 THEN HasSuffix(TrimPrefix(path, parts[1]), parts[2])
    ELSE IF HasPrefix(pattern, <<"*", ".">>) THEN HasSuffix(path, TrimPrefix(pattern, <<"*">>))
    ELSE Match(pattern, path)

\* matchesSimpleGlob handles glob patterns with ** wildcards
matchesSimpleGlob(pattern, path) ==
    IF HasPrefix(pattern, <<"*", "*", "/">>)
    THEN matchesDoubleStarSlash(TrimPrefix(pattern, <<"*", "*", "/">>), path)
    ELSE matchesParts(pattern, path, Split(pattern, <<"*", "*">>),
                      Contains(pattern, <<"*", "*">>))

matchesAlternatives_First(prefix, extensions, suffix, path) ==
    matchesSimpleGlob(prefix \o extensions[1] \o suffix, path)

\* Some alternative of prefix{extensions}suffix matches.
matchesAlternatives(prefix, extensions, suffix, path) ==
    \E i \in 1..Len(extensions) : matchesSimpleGlob(prefix \o extensions[i] \o suffix, path)

\* The pattern cut at its first "{" (parts) and what follows, cut at the first "}".
matchesBraces(pattern, path, parts, extPart) ==
    IF Len(parts) = 2 /\ Len(extPart) = 2 /\ Contains(pattern, <<"}">>)
    THEN matchesAlternatives(parts[1], Split(extPart[1], <<",">>), extPart[2], path)
    ELSE matchesSimpleGlob(pattern, path)

AfterBrace(parts) == IF Len(parts) = 2 THEN SplitN2(parts[2], <<"}">>) ELSE <<>>

matchesCut(pattern, path, parts) == matchesBraces(pattern, path, parts, AfterBrace(parts))

\* matchesGlob handles advanced glob patterns including ** and alternatives
matchesGlob(pattern, path) == matchesCut(pattern, path, SplitN2(pattern, <<"{">>))

FileScheme == <<"f", "i", "l", "e", ":", "/", "/">>

\* matchesPattern checks if a path matches the glob pattern; a pattern is
\* [basePath, pattern], basePath empty for a plain string pattern.
matchesPattern(path, pattern) ==
    IF pattern.basePath = <<>>
    THEN matchesGlob(pattern.pattern, ToSlash(path))
           \/ matchesGlob(pattern.pattern, Base(ToSlash(path)))
    ELSE matchesGlob(pattern.pattern,
                     ToSlash(Rel(ToSlash(TrimPrefix(pattern.basePath, FileScheme)),
                                 ToSlash(path))))

(***************************************************************************)
(* The exclusion tables.                                                   *)
(***************************************************************************)
excludedDirNames ==
    {<<".", "g", "i", "t">>, <<"n", "o", "d", "e", "_", "m", "o", "d", "u", "l", "e", "s">>, <<"d", "i", "s", "t">>,
     <<"b", "u", "i", "l", "d">>, <<"o", "u", "t">>, <<"b", "i", "n">>,
     <<".", "i", "d", "e", "a">>, <<".", "v", "s", "c", "o", "d", "e">>, <<".", "c", "a", "c", "h", "e">>,
     <<"c", "o", "v", "e", "r", "a", "g", "e">>, <<"t", "a", "r", "g", "e", "t">>, <<"v", "e", "n", "d", "o", "r">>}

excludedFileExtensions ==
    {<<".", "s", "w", "p">>, <<".", "s", "w", "o">>, <<".", "t", "m", "p">>, <<".", "t", "e", "m", "p">>,
     <<".", "b", "a", "k">>, <<".", "l", "o", "g">>, <<".", "o">>, <<".", "s", "o">>,
     <<".", "d", "y", "l", "i", "b">>, <<".", "d", "l", "l">>, <<".", "a">>, <<".", "e", "x", "e">>,
     <<".", "l", "o", "c", "k">>}

largeBinaryExtensions ==
    {<<".", "p", "n", "g">>, <<".", "j", "p", "g">>, <<".", "j", "p", "e", "g">>, <<".", "g", "i", "f">>,
     <<".", "b", "m", "p">>, <<".", "i", "c", "o">>, <<".", "z", "i", "p">>, <<".", "t", "a", "r">>,
     <<".", "g", "z">>, <<".", "r", "a", "r">>, <<".", "7", "z">>, <<".", "p", "d", "f">>,
     <<".", "m", "p", "3">>, <<".", "m", "p", "4">>, <<".", "m", "o", "v">>, <<".", "w", "a", "v">>,
     <<".", "w", "a", "s", "m">>}

\* Maximum file size to open (5MB)
maxFileSize == 5 * 1024 * 1024

(***************************************************************************)
(* The workspace of the model: its root, the paths that events and walks   *)
(* can name, the ignore file's matcher and the size of each file.          *)
(***************************************************************************)
workspacePath == <<"/", "w">>

PathA == <<"/", "w", "/", "a", ".", "g", "o">>

PathDot == <<"/", "w", "/", ".", "e">>

PathObj == <<"/", "w", "/", "b", ".", "o">>

PathTilde == <<"/", "w", "/", "c", "~">>

PathBig == <<"/", "w", "/", "d", ".", "g", "o">>

PathIgn == <<"/", "w", "/", "g", ".", "g", "o">>

PathDir == <<"/", "w", "/", "s">>

PathBin == <<"/", "w", "/", "b", "i", "n">>

PathDoc == <<"/", "w", "/", "r", ".", "m", "d">>

PathSub == <<"/", "w", "/", "s", "/", "f", ".", "g", "o">>

PathNM == <<"/", "w", "/", "n", "o", "d", "e", "_", "m", "o", "d", "u", "l", "e", "s">>

PathNMFile == <<"/", "w", "/", "n", "o", "d", "e", "_", "m", "o", "d", "u", "l", "e", "s", "/", "m", ".", "g", "o">>

PathLast == <<"/", "w", "/", "t", ".", "g", "o">>

FilePaths ==
    {PathA, PathDot, PathObj, PathTilde, PathBig, PathIgn, PathDoc, PathSub, PathNMFile,
     PathLast}

DirPaths == {PathDir, PathBin, PathNM}

\* The compiled .gitignore as the black box it is: the relative paths it matches.
gitIgnore == {<<"g", ".", "g", "o">>}

gitIgnoreLoaded == TRUE

\* info.Size() of a file of the model.
FileSize(path) == IF path = PathBig THEN maxFileSize + 1 ELSE 1


(***************************************************************************)
(* Bounds of the model.                                                    *)
(***************************************************************************)
\* Filesystem events the event source delivers in one run.
MaxEvents == 2

\* Calls of AddRegistrations in one run.
MaxRegCalls == 1

\* Errors the event source reports in one run.
MaxErrors == 1

\* Direct calls of debounceHandleFileEvent in one run of the coalescer alone.
MaxSched == 4

\* The debounce window (300 ms) in ticks of the model's clock.
debounceTime == 2

(***************************************************************************)
(* The state.                                                              *)
(***************************************************************************)
VARIABLES
    exists,         \* the filesystem: the paths that exist below the root
    openFiles,      \* the LSP client's open files
    openCalls,      \* path -> number of client.OpenFile calls so far
    registrations,  \* w.registrations
    regCalls,       \* number of AddRegistrations calls so far
    walks,          \* the bulk-open goroutines: what each has left to visit
    watched,        \* the directories added to the fsnotify watcher
    events,         \* watcher.Events: the events not yet received
    nEvents,        \* number of events delivered so far
    errors,         \* watcher.Errors: the errors not yet received
    nErrors,        \* number of errors reported so far
    srcClosed,      \* the event source has closed its channels
    cancelled,      \* ctx.Done() is closed
    loop,           \* the watch loop: "select" | "returned"
    errLogged,      \* errors the loop has logged
    handled,        \* events the loop has processed: in all, after ctx was
                    \* cancelled, after an error was logged; and the timers
                    \* that were pending for a path when its delete was processed
    debounceMap,    \* w.debounceMap: key -> timer
    timers,         \* every timer time.AfterFunc has created, by creation order
    calls,          \* the handleFileEvent calls so far: their number and the last
    sent,           \* the notifications sent to the client, in order
    input,          \* the arguments of the last call of a tool function
    output,         \* what that call returned
    debounceMu,     \* w.debounceMu: the thread that holds it, or Free
    registrationMu, \* w.registrationMu: its writer (or Free) and its readers
    threads         \* the threads inside a watcher function: where each one is

vars ==
    <<exists, openFiles, openCalls, registrations, regCalls, walks, watched, events,
      nEvents, errors, nErrors, srcClosed, cancelled, loop, errLogged, handled,
      debounceMap, timers, calls, sent, input, output, debounceMu, registrationMu,
      threads>>

fsVars == <<exists, events, nEvents>>
toolVars == <<input, output>>

lockVars == <<debounceMu, registrationMu, threads>>

\* The zero value of a mutex: no thread holds it.
Free == <<>>

\* The locks as constructed, and no thread inside a watcher function.
LocksIdle ==
    /\ debounceMu = Free
    /\ registrationMu = [writer |-> Free, readers |-> {}]
    /\ threads = <<>>

clientVars == <<openFiles, openCalls>>

regVars == <<registrations, regCalls, walks>>

loopVars == <<watched, errors, nErrors, srcClosed, cancelled, loop, errLogged, handled>>

debounceVars == <<debounceMap, timers>>

notifyVars == <<calls, sent>>

(***************************************************************************)
(* The filesystem as os.Stat sees it.                                      *)
(***************************************************************************)
StatOk(path) == path = workspacePath \/ path \in exists

IsDir(path) == path = workspacePath \/ path \in DirPaths

(***************************************************************************)
(* The exclusion policy.                                                   *)
(***************************************************************************)
\* shouldExcludeDir returns true if the directory should be excluded from watching/opening
shouldExcludeDir(dirPath) ==
    LET relPath == Rel(workspacePath, dirPath)
        dirName == Base(dirPath)
    IN  \/ gitIgnoreLoaded /\ ToSlash(relPath) \in gitIgnore
        \/ HasPrefix(dirName, <<".">>) /\ dirName # <<".">> /\ dirName # <<".", ".">>
        \/ dirName \in excludedDirNames

\* shouldExcludeFile returns true if the file should be excluded from opening
shouldExcludeFile(filePath) ==
    LET relPath == Rel(workspacePath, filePath)
        fileName == Base(filePath)
        ext == ToLower(Ext(filePath))
    IN  \/ gitIgnoreLoaded /\ ToSlash(relPath) \in gitIgnore
        \/ HasPrefix(fileName, <<".">>) /\ fileName # <<".">> /\ fileName # <<".", ".">>
        \/ ext \in excludedFileExtensions \/ ext \in largeBinaryExtensions
        \/ HasSuffix(filePath, <<"~">>)
        \/ ~StatOk(filePath)
        \/ FileSize(filePath) > maxFileSize

(***************************************************************************)
(* The registration store.                                                 *)
(***************************************************************************)
FullKind == {"create", "change", "delete"}

\* A variant that takes a path for watched only if exactly one registration
\* matches it.
isPathWatched_UniqueMatch(path) ==
    IF Len(registrations) = 0 THEN [watched |-> TRUE, kind |-> FullKind]
    ELSE LET hits == {i \in 1..Len(registrations) :
                         matchesPattern(path, registrations[i].globPattern)}
         IN  IF Cardinality(hits) # 1 THEN [watched |-> FALSE, kind |-> {}]
             ELSE LET reg == registrations[CHOOSE i \in hits : TRUE]
                  IN  [watched |-> TRUE,
                       kind |-> IF reg.hasKind THEN reg.kind ELSE FullKind]

\* A variant that lets the last matching registration decide.
isPathWatched_LastMatch(path) ==
    IF Len(registrations) = 0 THEN [watched |-> TRUE, kind |-> FullKind]
    ELSE LET hits == {i \in 1..Len(registrations) :
                         matchesPattern(path, registrations[i].globPattern)}
         IN  IF hits = {} THEN [watched |-> FALSE, kind |-> {}]
             ELSE LET reg == registrations[CHOOSE i \in hits : \A j \in hits : i >= j]
                  IN  [watched |-> TRUE,
                       kind |-> IF reg.hasKind THEN reg.kind ELSE FullKind]

\* isPathWatched checks if a path should be watched based on server registrations
isPathWatched(path) ==
    IF Len(registrations) = 0 THEN [watched |-> TRUE, kind |-> FullKind]
    ELSE LET hits == {i \in 1..Len(registrations) :
                         matchesPattern(path, registrations[i].globPattern)}
         IN  IF hits = {} THEN [watched |-> FALSE, kind |-> {}]
             ELSE LET reg == registrations[CHOOSE i \in hits : \A j \in hits : i <= j]
                  IN  [watched |-> TRUE,
                       kind |-> IF reg.hasKind THEN reg.kind ELSE FullKind]

(***************************************************************************)
(* The LSP client, an external collaborator: OpenFile is a no-op for a    *)
(* file that is already open.                                              *)
(***************************************************************************)
ClientOpenFile(open, path) == open \cup {path}

IsFileOpen(path) == path \in openFiles

\* A variant that opens every file that is not excluded, watched or not.
openMatchingFile_IgnoresRegistrations(path) ==
    /\ StatOk(path) /\ ~IsDir(path)
    /\ ~shouldExcludeFile(path)

\* openMatchingFile opens a file if it matches any of the registered patterns:
\* TRUE when it calls client.OpenFile.
openMatchingFile(path) ==
    /\ StatOk(path) /\ ~IsDir(path)
    /\ ~shouldExcludeFile(path)
    /\ isPathWatched(path).watched

(***************************************************************************)
(* Notification dispatch.                                                  *)
(***************************************************************************)
URI(name) == FileScheme \o name

\* notifyFileEvent sends a didChangeWatchedFiles notification for a file event
notifyFileEvent(uri, changeType) ==
    [method |-> "DidChangeWatchedFiles", file |-> <<>>, uri |-> uri, type |-> changeType]

\* A variant without the return after NotifyChange: it goes on to send the
\* watched-files notification as well.
handleFileEvent_FallsThrough(uri, changeType) ==
    LET filePath == SubSeq(uri, 8, Len(uri))
    IN  IF changeType = "Changed" /\ IsFileOpen(filePath)
        THEN <<[method |-> "NotifyChange", file |-> filePath, uri |-> <<>>, type |-> "None"],
               notifyFileEvent(uri, changeType)>>
        ELSE <<notifyFileEvent(uri, changeType)>>

\* handleFileEvent sends file change notifications: what it sends to the client.
handleFileEvent(uri, changeType) ==
    LET filePath == SubSeq(uri, 8, Len(uri))
    IN  IF changeType = "Changed" /\ IsFileOpen(filePath)
        THEN <<[method |-> "NotifyChange", file |-> filePath, uri |-> <<>>, type |-> "None"]>>
        ELSE <<notifyFileEvent(uri, changeType)>>

\* One more handleFileEvent call: its arguments, and what the client answered
\* to IsFileOpen at that moment.
Call(uri, changeType, by) ==
    [n |-> calls.n + 1, uri |-> uri, type |-> changeType, by |-> by,
     open |-> IsFileOpen(SubSeq(uri, 8, Len(uri)))]

NoCall == [n |-> 0, uri |-> <<>>, type |-> "None", by |-> "none", open |-> FALSE]


(***************************************************************************)
(* The debounce coalescer. A timer is [key, uri, type, state, rem, burst]: *)
(* state is "pending" (started, neither fired nor stopped), "running" (its *)
(* function has been started by the runtime and has not returned), "done"  *)
(* or "stopped"; rem is the time left until it is due. burst is history:   *)
(* the first timer of the burst of events the timer's event belongs to,    *)
(* an event belonging to the burst of the previous event for its key when  *)
(* it arrives less than debounceTime after it.                             *)
(*                                                                         *)
(* debounceHandleFileEvent holds debounceMu from entry to return and the   *)
(* timer function holds it around its delete, so each is one step.         *)
(***************************************************************************)
\* key := fmt.Sprintf("%s:%d", uri, changeType): one key per (uri, changeType).
Key(uri, changeType) == <<uri, changeType>>

TimersOf(key) == {i \in 1..Len(timers) : timers[i].key = key}

Live(i) == timers[i].state = "pending"

Fired(i) == timers[i].state \in {"running", "done"}

\* The burst an event for key joins when it is scheduled now.
BurstOf(key) ==
    LET prev == TimersOf(key)
        last == CHOOSE i \in prev : \A j \in prev : j <= i
    IN  IF prev # {} /\ timers[last].state = "pending" /\ timers[last].rem > 0
        THEN timers[last].burst
        ELSE Len(timers) + 1

\* timer.Stop(): prevents a pending timer from firing, and does nothing to a
\* timer that has fired, whose function may still be running.
StopTimer(ts, i) ==
    [ts EXCEPT ![i].state = IF @ = "pending" THEN "stopped" ELSE @]

\* A variant of debounceHandleFileEvent that stops every pending timer.
debounceHandleFileEvent_StopsAll(uri, changeType) ==
    LET key == Key(uri, changeType)
        timer == [key |-> key, uri |-> uri, type |-> changeType, state |-> "pending",
                  rem |-> debounceTime, burst |-> BurstOf(key)]
    IN  [debounceMap |-> [k \in DOMAIN debounceMap \cup {key} |->
                             IF k = key THEN Len(timers) + 1 ELSE debounceMap[k]],
         timers |-> Append([i \in 1..Len(timers) |->
                               [timers[i] EXCEPT !.state = IF @ = "pending" THEN "stopped"
                                                          ELSE @]],
                           timer)]

\* debounceHandleFileEvent handles file events with debouncing to reduce
\* notifications: the debounce table and the timers after the call.
debounceHandleFileEvent(uri, changeType) ==
    LET key == Key(uri, changeType)
        stopped == IF key \in DOMAIN debounceMap
                   THEN StopTimer(timers, debounceMap[key])
                   ELSE timers
        timer == [key |-> key, uri |-> uri, type |-> changeType, state |-> "pending",
                  rem |-> debounceTime, burst |-> BurstOf(key)]
    IN  [debounceMap |-> [k \in DOMAIN debounceMap \cup {key} |->
                             IF k = key THEN Len(timers) + 1 ELSE debounceMap[k]],
         timers |-> Append(stopped, timer)]

\* The runtime starts the function of a timer that is due: it calls
\* handleFileEvent, which sends its notification.
TimerFire(i) ==
    /\ timers[i].state = "pending" /\ timers[i].rem = 0
    /\ timers' = [timers EXCEPT ![i].state = "running"]
    /\ calls' = Call(timers[i].uri, timers[i].type, "timer")
    /\ sent' = sent \o handleFileEvent(timers[i].uri, timers[i].type)
    /\ UNCHANGED <<toolVars, lockVars, fsVars, clientVars, regVars, loopVars, debounceMap>>

\* A variant whose cleanup also stops the timer that the table holds for the key.
TimerCleanup_StopsEntry(i) ==
    /\ timers[i].state = "running"
    /\ timers' = [IF timers[i].key \in DOMAIN debounceMap
                  THEN StopTimer(timers, debounceMap[timers[i].key])
                  ELSE timers EXCEPT ![i].state = "done"]
    /\ debounceMap' = [k \in DOMAIN debounceMap \ {timers[i].key} |-> debounceMap[k]]
    /\ UNCHANGED <<toolVars, lockVars, fsVars, clientVars, regVars, loopVars, notifyVars>>

\* handleFileEvent has returned: the function takes debounceMu, deletes the
\* entry of its key and returns.
TimerCleanup(i) ==
    /\ timers[i].state = "running"
    /\ timers' = [timers EXCEPT ![i].state = "done"]
    /\ debounceMap' = [k \in DOMAIN debounceMap \ {timers[i].key} |-> debounceMap[k]]
    /\ UNCHANGED <<toolVars, lockVars, fsVars, clientVars, regVars, loopVars, notifyVars>>

\* Time passes: one tick less for every pending timer. A timer that is due
\* fires before time passes further.
Tick ==
    /\ \E i \in 1..Len(timers) : Live(i)
    /\ \A i \in 1..Len(timers) : Live(i) => timers[i].rem > 0
    /\ timers' = [i \in 1..Len(timers) |->
                    IF Live(i) THEN [timers[i] EXCEPT !.rem = @ - 1] ELSE timers[i]]
    /\ UNCHANGED <<toolVars, lockVars, fsVars, clientVars, regVars, loopVars, debounceMap, notifyVars>>

(***************************************************************************)
(* The coalescer alone: its caller hands it events for a few keys.         *)
(***************************************************************************)
DebounceKeys == {<<URI(PathA), "Changed">>, <<URI(PathA), "Created">>}

\* A timer that is due has fired by the time the next event for its key is
\* handed over: an event either comes within the window of the previous
\* one, or after that one's timer has fired.
Timely(key) == \A i \in TimersOf(key) : Live(i) => timers[i].rem > 0

Schedule(uri, changeType) ==
    /\ Len(timers) < MaxSched
    /\ Timely(Key(uri, changeType))
    /\ LET r == debounceHandleFileEvent(uri, changeType)
       IN  debounceMap' = r.debounceMap /\ timers' = r.timers
    /\ UNCHANGED <<toolVars, lockVars, fsVars, clientVars, regVars, loopVars, notifyVars>>

Init ==
    /\ exists = {PathA, PathDot}
    /\ openFiles = {}
    /\ openCalls = [p \in FilePaths |-> 0]
    /\ registrations = <<>>
    /\ regCalls = 0
    /\ walks = <<>>
    /\ watched = {workspacePath}
    /\ events = <<>>
    /\ nEvents = 0
    /\ errors = 0
    /\ nErrors = 0
    /\ srcClosed = FALSE
    /\ cancelled = FALSE
    /\ loop = "select"
    /\ errLogged = 0
    /\ handled = [n |-> 0, afterCancel |-> 0, afterError |-> 0, pendingAtDelete |-> {}]
    /\ debounceMap = <<>>
    /\ timers = <<>>
    /\ calls = NoCall
    /\ sent = <<>>
    /\ input = <<>>
    /\ output = <<>>
    /\ LocksIdle

NextDebounce ==
    \/ \E k \in DebounceKeys : Schedule(k[1], k[2])
    \/ \E i \in 1..Len(timers) : TimerFire(i)
    \/ \E i \in 1..Len(timers) : TimerCleanup(i)
    \/ Tick

SpecDebounce == Init /\ [][NextDebounce]_vars

\* The runtime fires due timers, their functions run on, and time passes.
FairDebounce ==
    /\ WF_vars(Tick)
    /\ \A i \in 1..MaxSched : WF_vars(i <= Len(timers) /\ TimerFire(i))
    /\ \A i \in 1..MaxSched : WF_vars(i <= Len(timers) /\ TimerCleanup(i))

SpecDebounceFair == SpecDebounce /\ FairDebounce


(***************************************************************************)
(* The watcher at work: the filesystem and the event source, the           *)
(* registration calls, the tools that open files, the watch loop's event   *)
(* case, and the timers of the coalescer.                                  *)
(***************************************************************************)
\* The paths the filesystem of this specification creates, changes and removes.
EventPaths == {PathA, PathDot, PathDir}

\* The entries of the root in the order filepath.WalkDir visits them.
WalkOrder ==
    <<PathDot, PathA, PathObj, PathBin, PathTilde, PathBig, PathIgn, PathNM, PathNMFile,
      PathDoc, PathDir, PathSub, PathLast>>

\* The registrations a server sends.
RegGoChange ==
    [globPattern |-> [basePath |-> <<>>, pattern |-> <<"*", ".", "g", "o">>],
     hasKind |-> TRUE, kind |-> {"change"}]

RegGoAll ==
    [globPattern |-> [basePath |-> <<>>, pattern |-> <<"*", "*", "/", "*", ".", "g", "o">>],
     hasKind |-> FALSE, kind |-> {}]

RegRelNoChange ==
    [globPattern |-> [basePath |-> FileScheme \o workspacePath, pattern |-> <<"*", ".", "{", "g", "o", ",", "e", "}">>],
     hasKind |-> TRUE, kind |-> {"create", "delete"}]

RegInputs == {<<RegGoChange, RegGoAll>>, <<RegGoAll, RegGoChange>>, <<RegRelNoChange>>}

(***************************************************************************)
(* The filesystem and the fsnotify event source. An event is [name, op],   *)
(* op a set of operations as fsnotify.Op is a bit set.                     *)
(***************************************************************************)
\* fsnotify reports a change of an entry of a directory it watches, and no
\* other: it does not watch below the directories it was given.
Deliver(name, op) ==
    /\ loop = "select" /\ ~srcClosed
    /\ nEvents < MaxEvents
    /\ events' = IF Dir(name) \in watched THEN Append(events, [name |-> name, op |-> op])
                 ELSE events
    /\ nEvents' = nEvents + 1
    /\ UNCHANGED <<toolVars, lockVars, clientVars, regVars, loopVars, debounceVars, notifyVars>>

FsCreate(p) ==
    p \notin exists /\ StatOk(Dir(p)) /\ exists' = exists \cup {p} /\ Deliver(p, {"Create"})

\* A file created and written at once, reported as one event.
FsCreateWrite(p) ==
    p \notin exists /\ p \in FilePaths /\ exists' = exists \cup {p} /\ Deliver(p, {"Create", "Write"})

FsWrite(p) == p \in exists /\ p \in FilePaths /\ exists' = exists /\ Deliver(p, {"Write"})

FsRemove(p) == p \in exists /\ exists' = exists \ {p} /\ Deliver(p, {"Remove"})

\* The path is renamed away: the event names the old path.
FsRename(p) == p \in exists /\ exists' = exists \ {p} /\ Deliver(p, {"Rename"})

SourceError ==
    /\ loop = "select" /\ ~srcClosed
    /\ nErrors < MaxErrors
    /\ errors' = errors + 1
    /\ nErrors' = nErrors + 1
    /\ UNCHANGED <<toolVars, lockVars, fsVars, clientVars, regVars, watched, srcClosed, cancelled, loop,
                   errLogged, handled, debounceVars, notifyVars>>

\* The event source ends and closes its channels.
SourceClose ==
    /\ loop = "select" /\ ~srcClosed
    /\ srcClosed' = TRUE
    /\ UNCHANGED <<toolVars, lockVars, fsVars, clientVars, regVars, watched, errors, nErrors, cancelled, loop,
                   errLogged, handled, debounceVars, notifyVars>>

Cancel ==
    /\ ~cancelled
    /\ cancelled' = TRUE
    /\ UNCHANGED <<toolVars, lockVars, fsVars, clientVars, regVars, watched, errors, nErrors, srcClosed, loop,
                   errLogged, handled, debounceVars, notifyVars>>

(***************************************************************************)
(* AddRegistrations and the walk it starts.                                *)
(***************************************************************************)
\* AddRegistrations adds file watchers to track, and starts the goroutine
\* that walks the workspace. A walk is what it has left to visit, whether it
\* ended on an error, the number of registrations when it started and the
\* files it has called client.OpenFile for.
AddRegistrations(watchers) ==
    /\ registrations' = registrations \o watchers
    /\ regCalls' = regCalls + 1
    /\ walks' = Append(walks, [todo |-> <<workspacePath>>, failed |-> FALSE,
                               start |-> Len(registrations) + Len(watchers),
                               opened |-> {}])
    /\ UNCHANGED <<toolVars, lockVars, fsVars, clientVars, loopVars, debounceVars, notifyVars>>

\* os.ReadDir: the entries of a directory, sorted by name.
ReadDir(dir) == SelectSeq(WalkOrder, LAMBDA p : p \in exists /\ Dir(p) = dir)

\* A variant that descends into excluded directories as well.
WalkDirEntry_NoSkip(walk, path) ==
    IF StatOk(path)
    THEN [walk EXCEPT !.todo = ReadDir(path) \o Tail(walk.todo)]
    ELSE [walk EXCEPT !.todo = <<>>, !.failed = TRUE]

\* The walk function on a directory: SkipDir for an excluded one; WalkDir then
\* reads the directory, and calls the function with the error if it cannot,
\* which the function returns: the walk ends.
WalkDirEntry(walk, path) ==
    IF path # workspacePath /\ shouldExcludeDir(path)
    THEN [walk EXCEPT !.todo = Tail(walk.todo)]
    ELSE IF StatOk(path)
    THEN [walk EXCEPT !.todo = ReadDir(path) \o Tail(walk.todo)]
    ELSE [walk EXCEPT !.todo = <<>>, !.failed = TRUE]

\* The walk function on a file: w.openMatchingFile(ctx, path)
WalkFileEntry(walk, path) ==
    [walk EXCEPT !.todo = Tail(walk.todo),
                 !.opened = IF openMatchingFile(path) THEN @ \cup {path} ELSE @]

\* One call of the walk function, for the next entry of walk i.
WalkStep(i) ==
    /\ walks[i].todo # <<>>
    /\ IF IsDir(Head(walks[i].todo))
       THEN /\ walks' = [walks EXCEPT ![i] = WalkDirEntry(@, Head(@.todo))]
            /\ UNCHANGED clientVars
       ELSE /\ walks' = [walks EXCEPT ![i] = WalkFileEntry(@, Head(@.todo))]
            /\ openFiles' = IF openMatchingFile(Head(walks[i].todo))
                            THEN ClientOpenFile(openFiles, Head(walks[i].todo))
                            ELSE openFiles
            /\ openCalls' = IF openMatchingFile(Head(walks[i].todo))
                            THEN [openCalls EXCEPT ![Head(walks[i].todo)] = @ + 1]
                            ELSE openCalls
    /\ UNCHANGED <<toolVars, lockVars, fsVars, registrations, regCalls, loopVars, debounceVars, notifyVars>>

\* A tool of the server opens a file in the client (GetDocumentSymbols and
\* the other tools open the file they are asked about).
ToolOpenFile(p) ==
    /\ p \in exists /\ p \in FilePaths /\ p \notin openFiles
    /\ openFiles' = ClientOpenFile(openFiles, p)
    /\ UNCHANGED <<toolVars, lockVars, fsVars, openCalls, regVars, loopVars, debounceVars, notifyVars>>

(***************************************************************************)
(* The watch loop. One iteration is one step: the select takes any case    *)
(* that is ready, and the case's body runs to the next select.             *)
(***************************************************************************)
\* A variant that watches every new directory.
EventWatchesDir_NoExclusion(ev) ==
    /\ "Create" \in ev.op
    /\ StatOk(ev.name) /\ IsDir(ev.name)

\* A new directory is added to the watcher.
EventWatchesDir(ev) ==
    /\ "Create" \in ev.op
    /\ StatOk(ev.name) /\ IsDir(ev.name)
    /\ ~shouldExcludeDir(ev.name)

\* A newly created file is opened.
EventOpens(ev) ==
    /\ "Create" \in ev.op
    /\ StatOk(ev.name) /\ ~IsDir(ev.name)
    /\ ~shouldExcludeFile(ev.name)
    /\ openMatchingFile(ev.name)

\* The case the switch on event.Op takes: the first that matches.
EventCase(ev) ==
    IF "Write" \in ev.op THEN "Write"
    ELSE IF "Create" \in ev.op THEN "Create"
    ELSE IF "Remove" \in ev.op THEN "Remove"
    ELSE IF "Rename" \in ev.op THEN "Rename"
    ELSE "None"

\* The change type the event hands to debounceHandleFileEvent, "None" if none.
EventSchedules(ev) ==
    LET w == isPathWatched(ev.name)
        c == EventCase(ev)
    IN  IF ~w.watched THEN "None"
        ELSE IF c = "Write"
             THEN IF "change" \in w.kind THEN "Changed" ELSE "None"
        ELSE IF c = "Create"
             THEN IF StatOk(ev.name) /\ ~IsDir(ev.name) /\ "create" \in w.kind
                     /\ ~shouldExcludeFile(ev.name)
                  THEN "Created" ELSE "None"
        ELSE IF c = "Rename"
             THEN IF StatOk(ev.name) /\ ~IsDir(ev.name) /\ "create" \in w.kind
                     /\ ~shouldExcludeFile(ev.name)
                  THEN "Created" ELSE "None"
        ELSE "None"

\* The event calls handleFileEvent for a Deleted notification.
EventDeletes(ev) ==
    LET w == isPathWatched(ev.name)
    IN  /\ w.watched
        /\ EventCase(ev) \in {"Remove", "Rename"}
        /\ "delete" \in w.kind
        /\ ~shouldExcludeFile(ev.name)

\* A variant that honours the cancellation only once the event queue is drained.
LoopCtxDone_Drains ==
    /\ loop = "select" /\ cancelled /\ events = <<>>
    /\ loop' = "returned"
    /\ UNCHANGED <<toolVars, lockVars, fsVars, clientVars, regVars, watched, errors, nErrors, srcClosed,
                   cancelled, errLogged, handled, debounceVars, notifyVars>>

\* case <-ctx.Done(): return
LoopCtxDone ==
    /\ loop = "select" /\ cancelled
    /\ loop' = "returned"
    /\ UNCHANGED <<toolVars, lockVars, fsVars, clientVars, regVars, watched, errors, nErrors, srcClosed,
                   cancelled, errLogged, handled, debounceVars, notifyVars>>

\* case event, ok := <-watcher.Events, with ok
LoopEvent ==
    /\ loop = "select" /\ events # <<>>
    /\ LET ev == Head(events)
           uri == URI(ev.name)
           type == EventSchedules(ev)
           r == IF type = "None" THEN [debounceMap |-> debounceMap, timers |-> timers]
                ELSE debounceHandleFileEvent(uri, type)
       IN  /\ events' = Tail(events)
           /\ watched' = IF EventWatchesDir(ev) THEN watched \cup {ev.name} ELSE watched
           /\ openFiles' = IF EventOpens(ev) THEN ClientOpenFile(openFiles, ev.name)
                           ELSE openFiles
           /\ openCalls' = IF EventOpens(ev) THEN [openCalls EXCEPT ![ev.name] = @ + 1]
                           ELSE openCalls
           /\ calls' = IF EventDeletes(ev) THEN Call(uri, "Deleted", "loop") ELSE calls
           /\ sent' = IF EventDeletes(ev) THEN sent \o handleFileEvent(uri, "Deleted")
                      ELSE sent
           /\ debounceMap' = r.debounceMap
           /\ timers' = r.timers
           /\ handled' = [n |-> handled.n + 1,
                           afterCancel |-> handled.afterCancel + IF cancelled THEN 1 ELSE 0,
                           afterError |-> handled.afterError + IF errLogged > 0 THEN 1 ELSE 0,
                           pendingAtDelete |->
                               handled.pendingAtDelete
                                   \cup IF EventDeletes(ev)
                                        THEN {i \in 1..Len(timers) :
                                                 timers[i].uri = uri /\ Live(i)}
                                        ELSE {}]
    /\ UNCHANGED <<toolVars, lockVars, exists, nEvents, regVars, errors, nErrors, srcClosed, cancelled, loop,
                   errLogged>>

\* A variant that returns after logging the error.
LoopError_Returns ==
    /\ loop = "select" /\ errors > 0
    /\ errors' = errors - 1
    /\ errLogged' = errLogged + 1
    /\ loop' = "returned"
    /\ UNCHANGED <<toolVars, lockVars, fsVars, clientVars, regVars, watched, nErrors, srcClosed, cancelled,
                   handled, debounceVars, notifyVars>>

\* case err, ok := <-watcher.Errors, with ok
LoopError ==
    /\ loop = "select" /\ errors > 0
    /\ errors' = errors - 1
    /\ errLogged' = errLogged + 1
    /\ UNCHANGED <<toolVars, lockVars, fsVars, clientVars, regVars, watched, nErrors, srcClosed, cancelled,
                   loop, handled, debounceVars, notifyVars>>

\* A receive from a closed and drained channel, !ok: return
LoopClosed ==
    /\ loop = "select" /\ srcClosed
    /\ events = <<>> \/ errors = 0
    /\ loop' = "returned"
    /\ UNCHANGED <<toolVars, lockVars, fsVars, clientVars, regVars, watched, errors, nErrors, srcClosed,
                   cancelled, errLogged, handled, debounceVars, notifyVars>>

Next ==
    \/ \E p \in EventPaths : FsCreate(p)
    \/ \E p \in EventPaths : FsCreateWrite(p)
    \/ \E p \in EventPaths : FsWrite(p)
    \/ \E p \in EventPaths : FsRemove(p)
    \/ \E p \in EventPaths : FsRename(p)
    \/ \E ws \in RegInputs : regCalls < MaxRegCalls /\ AddRegistrations(ws)
    \/ \E p \in EventPaths : ToolOpenFile(p)
    \/ LoopEvent
    \/ \E i \in 1..Len(timers) : TimerFire(i)
    \/ \E i \in 1..Len(timers) : TimerCleanup(i)
    \/ Tick

Spec == Init /\ [][Next]_vars

(***************************************************************************)
(* The life of the watch loop: the event source reports errors and ends,   *)
(* the context is cancelled, and the loop's select takes any ready case.   *)
(***************************************************************************)
NextLoop ==
    \/ \E p \in EventPaths : FsCreate(p)
    \/ \E p \in EventPaths : FsWrite(p)
    \/ \E p \in EventPaths : FsRemove(p)
    \/ SourceError
    \/ SourceClose
    \/ Cancel
    \/ LoopCtxDone
    \/ LoopEvent
    \/ LoopError
    \/ LoopClosed

SpecLoop == Init /\ [][NextLoop]_vars


(***************************************************************************)
(* The registration store under the loop: the server registers watchers    *)
(* while the loop looks paths up for the events it takes.                  *)
(***************************************************************************)
RegCandidates == {RegGoChange, RegGoAll, RegRelNoChange}

\* What one registration request may carry: one or two of the candidates.
WatchedInputs ==
    {<<a>> : a \in RegCandidates} \cup {<<a, b>> : a \in RegCandidates, b \in RegCandidates}

NextWatched ==
    \/ \E ws \in WatchedInputs : regCalls < MaxRegCalls /\ AddRegistrations(ws)
    \/ \E p \in EventPaths : FsCreate(p)
    \/ \E p \in EventPaths : FsWrite(p)
    \/ LoopEvent

SpecWatched == Init /\ [][NextWatched]_vars

(***************************************************************************)
(* The bulk open: registrations arrive while earlier walks are under way,  *)
(* over a workspace with a subdirectory and an excluded directory.         *)
(***************************************************************************)
\* AddRegistrations calls, each with its walk.
MaxWalks == 2

WalkFiles == {PathA, PathDot, PathDoc, PathDir, PathSub, PathNM, PathNMFile}

RegDoc ==
    [globPattern |-> [basePath |-> <<>>, pattern |-> <<"*", ".", "m", "d">>],
     hasKind |-> FALSE, kind |-> {}]

WalkInputs == {<<RegGoChange, RegGoAll>>, <<RegDoc>>}

\* The directories the walk of WatchWorkspace adds to the fsnotify watcher: the
\* root and the directories that are not excluded.
InitialWatched(fs) ==
    {workspacePath} \cup {d \in DirPaths \cap fs : ~shouldExcludeDir(d) /\ Dir(d) = workspacePath}

InitWalk ==
    /\ exists = WalkFiles
    /\ openFiles \in {{}, {PathA}}
    /\ openCalls = [p \in FilePaths |-> 0]
    /\ registrations = <<>>
    /\ regCalls = 0
    /\ walks = <<>>
    /\ watched = InitialWatched(WalkFiles)
    /\ events = <<>>
    /\ nEvents = 0
    /\ errors = 0
    /\ nErrors = 0
    /\ srcClosed = FALSE
    /\ cancelled = FALSE
    /\ loop = "select"
    /\ errLogged = 0
    /\ handled = [n |-> 0, afterCancel |-> 0, afterError |-> 0, pendingAtDelete |-> {}]
    /\ debounceMap = <<>>
    /\ timers = <<>>
    /\ calls = NoCall
    /\ sent = <<>>
    /\ input = <<>>
    /\ output = <<>>
    /\ LocksIdle

NextWalk ==
    \/ \E ws \in WalkInputs : regCalls < MaxWalks /\ AddRegistrations(ws)
    \/ \E i \in 1..Len(walks) : WalkStep(i)

SpecWalk == InitWalk /\ [][NextWalk]_vars

\* The goroutine of a walk keeps running: weak fairness of WalkStep(i), written
\* out with the guard of WalkStep(i) for its enabling condition.
FairWalk ==
    \A i \in 1..MaxWalks :
        <>[](i <= Len(walks) /\ walks[i].todo # <<>>)
            => []<><<i <= Len(walks) /\ WalkStep(i)>>_vars

SpecWalkFair == SpecWalk /\ FairWalk

(***************************************************************************)
(* The loop and the walk over a workspace whose node_modules directory     *)
(* exists from the start or is created while they run.                     *)
(***************************************************************************)
TreePaths == {PathNM, PathNMFile}

TreeFiles == {PathNMFile, PathSub}

InitTree ==
    /\ exists \in {WalkFiles, WalkFiles \ {PathNM, PathNMFile}}
    /\ openFiles = {}
    /\ openCalls = [p \in FilePaths |-> 0]
    /\ registrations = <<>>
    /\ regCalls = 0
    /\ walks = <<>>
    /\ watched = InitialWatched(exists)
    /\ events = <<>>
    /\ nEvents = 0
    /\ errors = 0
    /\ nErrors = 0
    /\ srcClosed = FALSE
    /\ cancelled = FALSE
    /\ loop = "select"
    /\ errLogged = 0
    /\ handled = [n |-> 0, afterCancel |-> 0, afterError |-> 0, pendingAtDelete |-> {}]
    /\ debounceMap = <<>>
    /\ timers = <<>>
    /\ calls = NoCall
    /\ sent = <<>>
    /\ input = <<>>
    /\ output = <<>>
    /\ LocksIdle

NextTree ==
    \/ \E p \in TreePaths : FsCreate(p)
    \/ \E p \in TreeFiles : FsWrite(p)
    \/ \E ws \in WalkInputs : regCalls < MaxRegCalls /\ AddRegistrations(ws)
    \/ \E i \in 1..Len(walks) : WalkStep(i)
    \/ LoopEvent

SpecTree == InitTree /\ [][NextTree]_vars

\* The runtime's select picks among the ready cases at random, and Done stays
\* ready once the context is cancelled: the loop cannot pass it over for ever.
SpecLoopFair == SpecLoop /\ WF_vars(LoopCtxDone)

(***************************************************************************)
(* What the claims speak of.                                               *)
(***************************************************************************)
\* The step is the watch loop's event case, taking the head of the queue.
LoopTakesEvent == handled'.n = handled.n + 1

\* The step hands (uri, type) to the coalescer, which starts a timer for it.
ScheduledNow(uri, type) ==
    /\ Len(timers') = Len(timers) + 1
    /\ timers'[Len(timers')].uri = uri
    /\ timers'[Len(timers')].type = type
    /\ timers'[Len(timers')].state = "pending"
    /\ Key(uri, type) \in DOMAIN debounceMap'
    /\ debounceMap'[Key(uri, type)] = Len(timers')

\* The step calls handleFileEvent(uri, type) in the loop itself.
DispatchedNow(uri, type) ==
    /\ calls'.n = calls.n + 1
    /\ calls'.uri = uri /\ calls'.type = type /\ calls'.by = "loop"
    /\ Len(sent') = Len(sent) + 1

\* Excluded by the ignore rules, the dot prefix, the extension, the tilde
\* suffix or the size, whether or not the file still exists.
PolicyExcluded(path) ==
    \/ Rel(workspacePath, path) \in gitIgnore
    \/ HasPrefix(Base(path), <<".">>)
    \/ ToLower(Ext(path)) \in excludedFileExtensions \cup largeBinaryExtensions
    \/ HasSuffix(path, <<"~">>)
    \/ FileSize(path) > maxFileSize

Bursts == {timers[i].burst : i \in 1..Len(timers)}

\* The timers of burst b that have fired: its dispatches.
DispatchesOf(b) == {i \in 1..Len(timers) : timers[i].burst = b /\ Fired(i)}

\* Every timer has run to its end or was stopped.
Quiescent == \A i \in 1..Len(timers) : timers[i].state \in {"done", "stopped"}

(***************************************************************************)
(* C1. Debounce coalescing: the events of one burst for a key (each less   *)
(* than the debounce window after the previous one) get exactly one        *)
(* dispatch, after the last event of the burst: no burst ever has two      *)
(* dispatches, no event joins a burst that was dispatched already, and     *)
(* once all timers are through every burst has had its one dispatch.       *)
(***************************************************************************)
C1_DebounceCoalescing ==
    /\ \A b \in Bursts : Cardinality(DispatchesOf(b)) <= 1
    /\ \A i \in 1..Len(timers) :
         Fired(i) => \A j \in 1..Len(timers) : timers[j].burst = timers[i].burst => j <= i
    /\ Quiescent => \A b \in Bursts : Cardinality(DispatchesOf(b)) = 1

(***************************************************************************)
(* C2. Eventual notification: every event handed to the coalescer is       *)
(* eventually followed by a dispatch for its key, by its own timer or by   *)
(* the timer of a later event for that key.                                *)
(***************************************************************************)
C2_EventualNotification ==
    \A i \in 1..MaxSched :
        (Len(timers) >= i)
            ~> (\E j \in i..Len(timers) : timers[j].key = timers[i].key /\ Fired(j))

\* A timer was cancelled and replaced, a timer function has removed the
\* table's entry, and the replacing event has had its dispatch.
C2_Witness ==
    \E i, j \in 1..Len(timers) :
        /\ i < j /\ timers[i].key = timers[j].key
        /\ timers[i].state = "stopped"
        /\ timers[j].state = "done"

(***************************************************************************)
(* C3. Delete handling: when the loop takes a Remove event for a file that *)
(* is gone from disk, is watched with a mask that includes delete and is   *)
(* not excluded by policy, that step dispatches a Deleted notification for *)
(* the path, and starts no timer.                                          *)
(***************************************************************************)
C3_DeleteDispatched ==
    [][(/\ LoopTakesEvent
        /\ Head(events).op = {"Remove"}
        /\ ~StatOk(Head(events).name)
        /\ isPathWatched(Head(events).name).watched
        /\ "delete" \in isPathWatched(Head(events).name).kind
        /\ ~PolicyExcluded(Head(events).name))
       => DispatchedNow(URI(Head(events).name), "Deleted") /\ timers' = timers]_vars

(***************************************************************************)
(* C4. Write handling: a Changed notification is scheduled only for a path *)
(* that is watched, with a mask that includes change, and that             *)
(* shouldExcludeFile does not exclude.                                     *)
(***************************************************************************)
C4_ChangedOnlyIfNotExcluded ==
    [][(/\ LoopTakesEvent
        /\ Len(timers') > Len(timers)
        /\ timers'[Len(timers')].type = "Changed")
       => /\ isPathWatched(Head(events).name).watched
          /\ "change" \in isPathWatched(Head(events).name).kind
          /\ ~shouldExcludeFile(Head(events).name)]_vars

(***************************************************************************)
(* C5. File creation: for an event whose operations include Create, on an  *)
(* existing file that is not excluded and is watched, the step calls       *)
(* client.OpenFile and, if the mask includes create, schedules a Created   *)
(* notification; if the mask lacks create it schedules no Created.         *)
(***************************************************************************)
C5_CreateOpensAndSchedules ==
    [][(/\ LoopTakesEvent
        /\ "Create" \in Head(events).op
        /\ StatOk(Head(events).name) /\ ~IsDir(Head(events).name)
        /\ ~shouldExcludeFile(Head(events).name)
        /\ isPathWatched(Head(events).name).watched)
       => /\ openCalls'[Head(events).name] = openCalls[Head(events).name] + 1
          /\ Head(events).name \in openFiles'
          /\ IF "create" \in isPathWatched(Head(events).name).kind
             THEN ScheduledNow(URI(Head(events).name), "Created")
             ELSE ~(Len(timers') > Len(timers) /\ timers'[Len(timers')].type = "Created")]_vars

(***************************************************************************)
(* C6. Rename handling: a Rename event dispatches a Deleted notification   *)
(* for the old path under the checks of a delete event, and then, only if  *)
(* the path exists and is no directory, opens the file and, if the mask    *)
(* includes create, schedules a Created notification.                      *)
(***************************************************************************)
C6_RenameDecomposed ==
    [][(/\ LoopTakesEvent
        /\ Head(events).op = {"Rename"}
        /\ isPathWatched(Head(events).name).watched)
       => /\ ("delete" \in isPathWatched(Head(events).name).kind
                /\ ~PolicyExcluded(Head(events).name))
             => DispatchedNow(URI(Head(events).name), "Deleted")
          /\ IF StatOk(Head(events).name) /\ ~IsDir(Head(events).name)
                /\ ~shouldExcludeFile(Head(events).name)
             THEN /\ openCalls'[Head(events).name] = openCalls[Head(events).name] + 1
                  /\ "create" \in isPathWatched(Head(events).name).kind
                     => ScheduledNow(URI(Head(events).name), "Created")
             ELSE timers' = timers /\ openCalls' = openCalls]_vars

(***************************************************************************)
(* C7. An error from the event source does not end the watch loop: a value *)
(* received on the error channel is logged and the loop goes back to its    *)
(* select; the loop returns only when the context is cancelled or a        *)
(* channel of the source is closed.                                        *)
(***************************************************************************)
C7_ErrorLoggedLoopContinues ==
    [][/\ errLogged' # errLogged
          => errLogged' = errLogged + 1 /\ errors' = errors - 1 /\ loop' = loop
       /\ (loop = "select" /\ loop' = "returned") => (cancelled \/ srcClosed)]_vars

\* An error was logged and the loop has processed an event after it.
C7_Witness == errLogged > 0 /\ handled.afterError > 0 /\ ~cancelled /\ ~srcClosed

\* C7 as stated: receiving an error ends the loop, and no event is processed
\* after it.
C7_ErrorTerminates ==
    [][/\ errLogged' > errLogged => loop' = "returned"
       /\ errLogged > 0 => handled' = handled]_vars

MatchingRegs(path) ==
    {i \in 1..Len(registrations) : matchesPattern(path, registrations[i].globPattern)}

\* The mask of a registration: the full mask if it names no kind.
MaskOf(reg) == IF reg.hasKind THEN reg.kind ELSE FullKind

QueryPaths == {PathA, PathDot, PathObj, PathBin}

(***************************************************************************)
(* C9. isPathWatched(path): with no registration it answers (true, full    *)
(* mask) for every path; otherwise (true, mask of the first registration,  *)
(* in insertion order, whose pattern matches), a registration without a    *)
(* kind counting as the full mask; and (false, 0) if none matches.         *)
(***************************************************************************)
C9_FirstMatchDecides ==
    \A p \in QueryPaths :
        IF Len(registrations) = 0
        THEN isPathWatched(p) = [watched |-> TRUE, kind |-> FullKind]
        ELSE IF MatchingRegs(p) = {}
        THEN isPathWatched(p) = [watched |-> FALSE, kind |-> {}]
        ELSE \E i \in MatchingRegs(p) :
                /\ \A j \in 1..(i - 1) : j \notin MatchingRegs(p)
                /\ isPathWatched(p) = [watched |-> TRUE, kind |-> MaskOf(registrations[i])]

\* Two registrations match the path, the later one with another mask, and the
\* loop has taken an event under them: the answer carries the earlier mask.
C9_Witness ==
    /\ handled.n > 0
    /\ \E i, j \in MatchingRegs(PathA) :
          /\ i < j /\ \A k \in 1..(i - 1) : k \notin MatchingRegs(PathA)
          /\ MaskOf(registrations[i]) # MaskOf(registrations[j])
          /\ isPathWatched(PathA).kind = MaskOf(registrations[i])
          /\ registrations[i].hasKind

(***************************************************************************)
(* C10. Dispatch kind: each handleFileEvent call sends exactly one         *)
(* notification: NotifyChange for the file if and only if the type is      *)
(* Changed and the client reports the file open at that moment, and in     *)
(* every other case a watched-files notification with the call's uri and   *)
(* type; nothing is sent without a call.                                   *)
(***************************************************************************)
C10_DispatchKind ==
    [][IF calls'.n = calls.n THEN sent' = sent
       ELSE /\ calls'.n = calls.n + 1
            /\ sent' = Append(sent,
                 IF calls'.type = "Changed"
                    /\ SubSeq(calls'.uri, 8, Len(calls'.uri)) \in openFiles
                 THEN [method |-> "NotifyChange",
                       file |-> SubSeq(calls'.uri, 8, Len(calls'.uri)),
                       uri |-> <<>>, type |-> "None"]
                 ELSE [method |-> "DidChangeWatchedFiles", file |-> <<>>,
                       uri |-> calls'.uri, type |-> calls'.type])]_vars

\* The last call was for a change of an open file, and NotifyChange was sent.
C10_Witness ==
    /\ calls.n > 0 /\ calls.type = "Changed" /\ calls.open
    /\ Len(sent) = calls.n
    /\ sent[Len(sent)].method = "NotifyChange"

\* The path lies below a directory that shouldExcludeDir excludes.
UnderExcludedDir(path) ==
    \E d \in DirPaths : HasPrefix(path, d \o <<"/">>) /\ shouldExcludeDir(d)

\* Some registration of regs matches the path, or there is none at all.
WatchedUnder(regs, path) ==
    regs = <<>> \/ \E k \in 1..Len(regs) : matchesPattern(path, regs[k].globPattern)

\* The files walk i has to open: under the root, outside excluded directories,
\* not excluded, and watched by the registrations present when it started.
Eligible(i) ==
    {p \in FilePaths \cap exists :
        /\ ~UnderExcludedDir(p) /\ ~shouldExcludeFile(p)
        /\ WatchedUnder(SubSeq(registrations, 1, walks[i].start), p)}

(***************************************************************************)
(* C11. Bulk open on registration: AddRegistrations returns with its walk  *)
(* still to run and without having opened anything; every walk eventually  *)
(* ends having called client.OpenFile for every file that is outside       *)
(* excluded directories, not excluded and watched by the registrations     *)
(* that include the new ones; and OpenFile is never called for a file that *)
(* is excluded or not watched.                                             *)
(***************************************************************************)
C11_BulkOpen ==
    /\ \A i \in 1..MaxWalks :
         (Len(walks) >= i)
            ~> (Len(walks) >= i /\ walks[i].todo = <<>> /\ Eligible(i) \subseteq walks[i].opened)
    /\ [][/\ \A p \in FilePaths :
               openCalls'[p] > openCalls[p]
                  => /\ ~UnderExcludedDir(p) /\ ~shouldExcludeFile(p)
                     /\ WatchedUnder(registrations, p)
          /\ regCalls' > regCalls
               => /\ Len(walks') = Len(walks) + 1
                  /\ walks'[Len(walks')].todo # <<>>
                  /\ openCalls' = openCalls]_vars

\* The first walk is through: it has opened the file of the subdirectory and
\* left alone an unwatched file and the file below node_modules, while a
\* second registration's walk is still under way.
C11_Witness ==
    /\ Len(walks) = 2 /\ walks[1].todo = <<>> /\ walks[2].todo # <<>>
    /\ PathSub \in walks[1].opened /\ openCalls[PathSub] > 0
    /\ PathDoc \notin walks[1].opened
    /\ openCalls[PathNMFile] = 0

\* The same watchers were registered twice, and both walks are through.
RegisteredTwice ==
    /\ Len(walks) = 2 /\ walks[1].todo = <<>> /\ walks[2].todo = <<>>
    /\ registrations = SubSeq(registrations, 1, walks[1].start)
                          \o SubSeq(registrations, 1, walks[1].start)

(***************************************************************************)
(* C12. Re-registration idempotence: a second AddRegistrations call with   *)
(* the watchers of the first leaves isPathWatched unchanged for every      *)
(* path, and once both walks are through the files open in the client are  *)
(* those a single registration opens: the two walks together have opened   *)
(* exactly the files the first one has to open, and a file they opened     *)
(* twice is open once.                                                     *)
(***************************************************************************)
C12_ReRegistrationIdempotent ==
    /\ [][(regCalls = 1 /\ regCalls' = 2 /\ registrations' = registrations \o registrations)
            => \A p \in FilePaths \cup DirPaths : isPathWatched(p)' = isPathWatched(p)]_vars
    /\ [](RegisteredTwice
            => /\ walks[1].opened \cup walks[2].opened = Eligible(1)
               /\ Eligible(1) \subseteq openFiles
               /\ \A p \in openFiles \ Eligible(1) : openCalls[p] = 0)

\* Registered twice, both walks through, and a file that both walks have
\* called OpenFile for.
C12_Witness ==
    /\ RegisteredTwice
    /\ openCalls[PathA] = 2 /\ PathA \in openFiles
    /\ walks[1].opened = walks[2].opened

(***************************************************************************)
(* C13. A file inside node_modules/ is kept out, whatever its extension,   *)
(* by the directory rule: shouldExcludeDir excludes node_modules, so the   *)
(* walk skips the directory and the loop never adds it to the fsnotify     *)
(* watcher, and so the file is never opened and no event or notification   *)
(* for it arises. shouldExcludeFile itself looks at the file's own name,   *)
(* extension, size and ignore rules only, and does not exclude the file.   *)
(***************************************************************************)
C13_NodeModulesKeptOut ==
    /\ shouldExcludeDir(PathNM)
    /\ PathNM \notin watched
    /\ PathNMFile \in exists => ~shouldExcludeFile(PathNMFile)
    /\ openCalls[PathNMFile] = 0 /\ PathNMFile \notin openFiles
    /\ \A k \in 1..Len(events) : events[k].name # PathNMFile
    /\ \A i \in 1..Len(timers) : timers[i].uri # URI(PathNMFile)
    /\ \A k \in 1..Len(sent) : sent[k].uri # URI(PathNMFile) /\ sent[k].file # PathNMFile

\* node_modules was created while the loop ran, the loop has taken its Create
\* event, the file below it was created and written, and a walk that opens
\* .go files has run to its end since.
C13_Witness ==
    /\ PathNMFile \in exists /\ nEvents >= 2 /\ events = <<>> /\ handled.n >= 1
    /\ Len(walks) = 1 /\ walks[1].todo = <<>> /\ PathSub \in walks[1].opened

\* C13 as stated: shouldExcludeFile reports a file inside node_modules as
\* excluded.
C13_FileRuleExcludes == PathNMFile \in exists => shouldExcludeFile(PathNMFile)

(***************************************************************************)
(* internal/tools/find-references.go: the scope search.                    *)
(*                                                                         *)
(* A document symbol is a record [name, isDocumentSymbol, range,           *)
(* children]; a range is [start, end] of positions [line, character].      *)
(* Lines and characters are uint32 in the source; the model keeps an       *)
(* unsigned width of WordBits bits, which wraps subtraction as the source  *)
(* does for every value the model uses.                                    *)
(***************************************************************************)
WordBits == 16

Word == 2 ^ WordBits

USub(a, b) == ((a - b) + Word) % Word

Position(line, character) == [line |-> line, character |-> character]

Range(sl, sc, el, ec) == [start |-> Position(sl, sc), end |-> Position(el, ec)]

DocumentSymbol(name, range, children) ==
    [name |-> name, isDocumentSymbol |-> TRUE, range |-> range, children |-> children]

\* A protocol.SymbolInformation: a DocumentSymbolResult of the other type.
SymbolInformation(name, range) ==
    [name |-> name, isDocumentSymbol |-> FALSE, range |-> range, children |-> <<>>]

\* The nil *protocol.DocumentSymbol.
NilSymbol == [name |-> "<nil>"]

posInRange_LinesOnly(symRange, targetPos) ==
    targetPos.line >= symRange.start.line /\ targetPos.line <= symRange.end.line

posInRange(symRange, targetPos) ==
    IF ~(targetPos.line >= symRange.start.line /\ targetPos.line <= symRange.end.line)
    THEN FALSE
    ELSE IF targetPos.line = symRange.start.line
            /\ targetPos.character < symRange.start.character THEN FALSE
    ELSE IF targetPos.line = symRange.end.line
            /\ targetPos.character > symRange.end.character THEN FALSE
    ELSE TRUE

LineSpan(r) == USub(r.end.line, r.start.line)

CharSpan(r) == USub(r.end.character, r.start.character)

isBetter(symRange, bestMatch) ==
    \/ bestMatch = NilSymbol
    \/ LineSpan(symRange) < LineSpan(bestMatch.range)
    \/ /\ LineSpan(symRange) = LineSpan(bestMatch.range)
       /\ CharSpan(symRange) < CharSpan(bestMatch.range)

RECURSIVE findSymbolLoop(_, _, _, _)
\* What one symbol of the loop makes of bestMatch, childMatch being the
\* result of the search below it.
findSymbolStep(ds, targetPos, bestMatch, childMatch) ==
    IF ~ds.isDocumentSymbol THEN bestMatch
    ELSE IF ~posInRange(ds.range, targetPos) THEN bestMatch
    ELSE IF childMatch # NilSymbol THEN childMatch
    ELSE IF isBetter(ds.range, bestMatch) THEN ds
    ELSE bestMatch

\* The loop of findSymbolContainingPosition from symbols[i] on, bestMatch
\* being the match so far; the value is bestMatch after the last symbol.
findSymbolLoop(symbols, i, targetPos, bestMatch) ==
    IF i > Len(symbols) THEN bestMatch
    ELSE findSymbolLoop(symbols, i + 1, targetPos,
            findSymbolStep(symbols[i], targetPos, bestMatch,
                IF Len(symbols[i].children) > 0
                THEN findSymbolLoop(symbols[i].children, 1, targetPos, NilSymbol)
                ELSE NilSymbol))

findSymbolContainingPosition(symbols, targetPos) ==
    [symbol |-> findSymbolLoop(symbols, 1, targetPos, NilSymbol),
     found |-> findSymbolLoop(symbols, 1, targetPos, NilSymbol) # NilSymbol]

(***************************************************************************)
(* The scope search as a specification: a call with a symbol list and a    *)
(* position drawn from bounded sets, and its return.                       *)
(***************************************************************************)
MaxLine == 3
MaxChar == 3

\* The watcher's variables, which the tool functions leave alone.
watcherVars ==
    <<exists, openFiles, openCalls, registrations, regCalls, walks, watched, events,
      nEvents, errors, nErrors, srcClosed, cancelled, loop, errLogged, handled,
      debounceMap, timers, calls, sent, debounceMu, registrationMu, threads>>

\* The watcher as constructed, with no tool call made yet.
WatcherIdle ==
    /\ exists = {PathA, PathDot}
    /\ openFiles = {}
    /\ openCalls = [p \in FilePaths |-> 0]
    /\ registrations = <<>>
    /\ regCalls = 0
    /\ walks = <<>>
    /\ watched = {workspacePath}
    /\ events = <<>>
    /\ nEvents = 0
    /\ errors = 0
    /\ nErrors = 0
    /\ srcClosed = FALSE
    /\ cancelled = FALSE
    /\ loop = "select"
    /\ errLogged = 0
    /\ handled = [n |-> 0, afterCancel |-> 0, afterError |-> 0, pendingAtDelete |-> {}]
    /\ debounceMap = <<>>
    /\ timers = <<>>
    /\ calls = NoCall
    /\ sent = <<>>
    /\ output = <<>>
    /\ LocksIdle

\* The tree of the example: Outer[0,0]-[10,0] with child Inner[2,0]-[4,0].
ExampleSymbols ==
    <<DocumentSymbol("Outer", Range(0, 0, 10, 0),
                     <<DocumentSymbol("Inner", Range(2, 0, 4, 0), <<>>)>>)>>

ScopeRanges ==
    {Range(0, 0, 3, 0), Range(1, 0, 2, 0), Range(1, 1, 1, 3), Range(1, 0, 1, 3),
     Range(1, 2, 2, 1), Range(0, 1, 1, 1)}

\* r lies within s: both of its ends are positions of s.
Within(r, s) == posInRange(s, r.start) /\ posInRange(s, r.end)

\* The symbols a node named name can be: a leaf, or the parent of one leaf
\* whose range lies within its own.
ScopeNodes(name) ==
    {DocumentSymbol(name, r, <<>>) : r \in ScopeRanges}
        \cup {DocumentSymbol(name, q[1], <<DocumentSymbol(name \o ".c", q[2], <<>>)>>) :
                q \in {q \in ScopeRanges \X ScopeRanges : Within(q[2], q[1])}}

ScopeSymbols ==
    {ExampleSymbols, <<SymbolInformation("flat", Range(0, 0, 3, 0))>>}
        \cup {<<a>> : a \in ScopeNodes("a")}
        \cup {<<a, b>> : a \in ScopeNodes("a"), b \in ScopeNodes("b")}

ScopePositions ==
    {Position(l, c) : l \in (0..MaxLine) \cup {7, 20}, c \in 0..MaxChar}

InitScope ==
    /\ WatcherIdle
    /\ input \in {[symbols |-> s, targetPos |-> p] : s \in ScopeSymbols, p \in ScopePositions}

FindSymbolCall ==
    /\ output = <<>>
    /\ output' = findSymbolContainingPosition(input.symbols, input.targetPos)
    /\ UNCHANGED <<input, watcherVars>>

NextScope == FindSymbolCall

SpecScope == InitScope /\ [][NextScope]_vars

(***************************************************************************)
(* Claims about the scope search.                                          *)
(***************************************************************************)
RECURSIVE AllSymbols(_)
\* Every symbol of the list, at any depth.
AllSymbols(symbols) ==
    UNION {{symbols[k]} \cup AllSymbols(symbols[k].children) : k \in 1..Len(symbols)}

\* The containment rule in the words of the specification.
ContainsByRule(r, p) ==
    /\ r.start.line <= p.line /\ p.line <= r.end.line
    /\ p.line = r.start.line => ~(p.character < r.start.character)
    /\ p.line = r.end.line => ~(p.character > r.end.character)

Returned == output # <<>>

(***************************************************************************)
(* C14. findSymbolContainingPosition treats a node as containing a         *)
(* position exactly when the position's line lies in [start.line,          *)
(* end.line], its character is not before the start character on the start *)
(* line and not after the end character on the end line: a list of one     *)
(* childless symbol is resolved to that symbol exactly when the rule       *)
(* holds. For Outer[0,0]-[10,0] with child Inner[2,0]-[4,0], a position on *)
(* line 3 resolves to Inner, one on line 7 to Outer and one on line 20 to  *)
(* not found.                                                              *)
(***************************************************************************)
C14_ContainmentRule ==
    Returned =>
        /\ \A n \in AllSymbols(input.symbols) :
               posInRange(n.range, input.targetPos)
                   <=> ContainsByRule(n.range, input.targetPos)
        /\ (Len(input.symbols) = 1 /\ input.symbols[1].isDocumentSymbol
                /\ input.symbols[1].children = <<>>)
               => /\ output.found <=> ContainsByRule(input.symbols[1].range, input.targetPos)
                  /\ output.found => output.symbol = input.symbols[1]
        /\ input.symbols = ExampleSymbols
               => /\ input.targetPos.line = 3 => output.found /\ output.symbol.name = "Inner"
                  /\ input.targetPos.line = 7 => output.found /\ output.symbol.name = "Outer"
                  /\ input.targetPos.line = 20 => ~output.found

\* The search of the example tree for a position on line 3 has returned
\* Inner.
C14_Witness ==
    /\ Returned /\ input.symbols = ExampleSymbols /\ input.targetPos.line = 3
    /\ output.found /\ output.symbol.name = "Inner"

\* The symbols that contain the position and have no child containing it.
Candidates(symbols, p) ==
    {n \in AllSymbols(symbols) :
        /\ n.isDocumentSymbol /\ posInRange(n.range, p)
        /\ \A k \in 1..Len(n.children) : ~posInRange(n.children[k].range, p)}

\* n is no larger than m by (line span, character span).
NoLarger(n, m) ==
    \/ LineSpan(n.range) < LineSpan(m.range)
    \/ LineSpan(n.range) = LineSpan(m.range) /\ CharSpan(n.range) <= CharSpan(m.range)

(***************************************************************************)
(* C15. For every symbol tree and position, findSymbolContainingPosition   *)
(* returns the best containing node of the whole tree: one that contains   *)
(* the position, has no child containing it, and whose (line span,         *)
(* character span) is smallest among all such nodes, whatever the order of *)
(* siblings; it returns not found exactly when no node contains the        *)
(* position.                                                               *)
(***************************************************************************)
C15_ScopeOptimal ==
    (Returned /\ \A n \in AllSymbols(input.symbols) : n.isDocumentSymbol) =>
        /\ output.found <=>
               \E n \in AllSymbols(input.symbols) : posInRange(n.range, input.targetPos)
        /\ output.found =>
               /\ output.symbol \in Candidates(input.symbols, input.targetPos)
               /\ \A c \in Candidates(input.symbols, input.targetPos) :
                      NoLarger(output.symbol, c)

(***************************************************************************)
(* GetFullDefinition (src/unnamed/part_000): the symbol range around a     *)
(* location, its end extended to the closing bracket when the end line     *)
(* ends with an opening one. A file is the sequence of its lines, which is *)
(* what strings.Split(content, "\n") makes of it; the text returned is the *)
(* sequence of lines that strings.Join(selectedLines, "\n") joins.         *)
(***************************************************************************)
IsSpace(c) == c \in {" ", "\t", "\n", "\r"}

NonSpace(s) == {i \in 1..Len(s) : ~IsSpace(s[i])}

TrimSpace(s) ==
    IF NonSpace(s) = {} THEN <<>> ELSE SubSeq(s, MinOf(NonSpace(s)), MaxOf(NonSpace(s)))

containsPosition(r, p) ==
    IF r.start.line > p.line \/ r.end.line < p.line THEN FALSE
    ELSE IF r.start.line = p.line /\ r.start.character > p.character THEN FALSE
    ELSE IF r.end.line = p.line /\ r.end.character < p.character THEN FALSE
    ELSE TRUE

NotFound == [found |-> FALSE, range |-> Range(0, 0, 0, 0)]

RECURSIVE searchSymbols(_, _, _)
\* The closure searchSymbols from symbols[i] on: the range of the first
\* symbol, parents before children, that contains the position.
searchSymbols(symbols, i, p) ==
    IF i > Len(symbols) THEN NotFound
    ELSE IF containsPosition(symbols[i].range, p)
    THEN [found |-> TRUE, range |-> symbols[i].range]
    ELSE IF /\ symbols[i].isDocumentSymbol /\ Len(symbols[i].children) > 0
            /\ searchSymbols(symbols[i].children, 1, p).found
    THEN searchSymbols(symbols[i].children, 1, p)
    ELSE searchSymbols(symbols, i + 1, p)

isOpener(char) == char \in {"(", "[", "{", "<"}

isCloser(char) == char \in {")", "]", "}", ">"}

closes(lastOpen, char) ==
    \/ lastOpen = "(" /\ char = ")"
    \/ lastOpen = "[" /\ char = "]"
    \/ lastOpen = "{" /\ char = "}"
    \/ lastOpen = "<" /\ char = ">"

RECURSIVE scanLine_NoPush(_, _, _)
scanLine_NoPush(line, k, bracketStack) ==
    IF k > Len(line) THEN [closed |-> FALSE, stack |-> bracketStack, pos |-> 0]
    ELSE IF isCloser(line[k]) /\ closes(bracketStack[Len(bracketStack)], line[k])
    THEN [closed |-> TRUE, stack |-> <<>>, pos |-> k - 1]
    ELSE scanLine_NoPush(line, k + 1, bracketStack)

RECURSIVE scanLine(_, _, _)
\* The inner loop over one line from its k-th character on: whether the
\* stack emptied, at which 0-based offset, and the stack at the line's end.
scanLine(line, k, bracketStack) ==
    IF k > Len(line) THEN [closed |-> FALSE, stack |-> bracketStack, pos |-> 0]
    ELSE IF isOpener(line[k]) THEN scanLine(line, k + 1, Append(bracketStack, line[k]))
    ELSE IF /\ isCloser(line[k]) /\ Len(bracketStack) > 0
            /\ closes(bracketStack[Len(bracketStack)], line[k])
    THEN IF Len(bracketStack) = 1
         THEN [closed |-> TRUE, stack |-> <<>>, pos |-> k - 1]
         ELSE scanLine(line, k + 1, SubSeq(bracketStack, 1, Len(bracketStack) - 1))
    ELSE scanLine(line, k + 1, bracketStack)

RECURSIVE scanLines(_, _, _, _)
\* The outer loop from line lineNum (0-based) on: the range with its end
\* moved behind the closing bracket, or unchanged at the end of the file.
scanLines(lines, lineNum, bracketStack, symbolRange) ==
    IF ~(lineNum < Len(lines) % Word) THEN symbolRange
    ELSE IF scanLine(lines[lineNum + 1], 1, bracketStack).closed
    THEN [symbolRange EXCEPT
            !.end = Position(lineNum,
                             (scanLine(lines[lineNum + 1], 1, bracketStack).pos + 1) % Word)]
    ELSE scanLines(lines, (lineNum + 1) % Word,
                   scanLine(lines[lineNum + 1], 1, bracketStack).stack, symbolRange)

LastChar(s) == s[Len(s)]

extendRange(lines, symbolRange) ==
    IF /\ Len(TrimSpace(lines[symbolRange.end.line + 1])) > 0
       /\ isOpener(LastChar(TrimSpace(lines[symbolRange.end.line + 1])))
    THEN scanLines(lines, (symbolRange.end.line + 1) % Word,
                   <<LastChar(TrimSpace(lines[symbolRange.end.line + 1]))>>, symbolRange)
    ELSE symbolRange

DefinitionError(msg) == [text |-> <<>>, location |-> Range(0, 0, 0, 0), err |-> msg]

\* The function from the read of the file on, symbolRange being the range
\* found, its start already moved to the beginning of the line.
fullDefinitionOf(lines, symbolRange) ==
    IF symbolRange.end.line >= Len(lines) THEN DefinitionError("line number out of range")
    ELSE IF extendRange(lines, symbolRange).end.line >= Len(lines)
    THEN DefinitionError("end line out of range")
    ELSE [text |-> SubSeq(lines, symbolRange.start.line + 1,
                          extendRange(lines, symbolRange).end.line + 1),
          location |-> extendRange(lines, symbolRange),
          err |-> ""]

\* call is [symbols, lines, start, io]: what client.DocumentSymbol returns,
\* the file, startLocation.Range.Start, and which of the two I/O calls fails.
GetFullDefinition(call) ==
    IF call.io = "DocumentSymbol" THEN DefinitionError("failed to get document symbols")
    ELSE IF ~searchSymbols(call.symbols, 1, call.start).found
    THEN DefinitionError("symbol not found")
    ELSE IF call.io = "ReadFile" THEN DefinitionError("failed to read file")
    ELSE fullDefinitionOf(call.lines,
            [searchSymbols(call.symbols, 1, call.start).range EXCEPT !.start.character = 0])

(***************************************************************************)
(* GetFullDefinition as a specification: files of at most MaxTextLines     *)
(* lines drawn from DefLines, and a symbol list whose match ends on any    *)
(* line of the file or one beyond it.                                      *)
(***************************************************************************)
MaxTextLines == 4

DefLines ==
    {<<"f", " ", "{", " ">>, <<"(", "x", ")">>, <<" ", "}">>, <<"a", "<", "b">>,
     <<"x", ")">>, <<"{">>}

DefTexts == UNION {[1..n -> DefLines] : n \in 1..MaxTextLines}

DefStart == Position(0, 1)

\* The symbol lists for a file of n lines: none, a symbol around DefStart
\* that ends on line el, and one reached through a parent that does not
\* contain DefStart.
DefSymbols(n) ==
    {<<>>, <<SymbolInformation("far", Range(7, 0, 8, 0))>>,
     <<DocumentSymbol("p", Range(7, 0, 8, 0),
                      <<DocumentSymbol("c", Range(0, 1, 0, 3), <<>>)>>)>>}
        \cup {<<DocumentSymbol("s", Range(0, 1, el, 1), <<>>)>> : el \in 0..n}

DefCalls ==
    {[symbols |-> s, lines |-> t, start |-> DefStart, io |-> "ok"] :
        s \in DefSymbols(MaxTextLines), t \in DefTexts}
        \cup {[symbols |-> <<DocumentSymbol("s", Range(0, 1, 0, 1), <<>>)>>,
               lines |-> <<l>>, start |-> DefStart, io |-> e] :
                l \in DefLines, e \in {"DocumentSymbol", "ReadFile"}}

InitDefinition == WatcherIdle /\ input \in DefCalls

GetFullDefinitionCall ==
    /\ output = <<>>
    /\ output' = GetFullDefinition(input)
    /\ UNCHANGED <<input, watcherVars>>

NextDefinition == GetFullDefinitionCall

SpecDefinition == InitDefinition /\ [][NextDefinition]_vars

(***************************************************************************)
(* Claims about the range extension.                                       *)
(***************************************************************************)
BracketsOf(s) == SelectSeq(s, LAMBDA c : isOpener(c) \/ isCloser(c))

\* The first place where an opener is directly followed by its closer.
FirstPair(s) == FirstOf({k \in 1..(Len(s) - 1) : closes(s[k], s[k + 1])})

RECURSIVE Reduce(_)
\* s with every adjacent pair of matching brackets removed, repeatedly.
Reduce(s) ==
    IF FirstPair(s) = 0 THEN s
    ELSE Reduce(SubSeq(s, 1, FirstPair(s) - 1) \o SubSeq(s, FirstPair(s) + 2, Len(s)))

RECURSIVE Flat(_, _, _)
\* The characters of lines from..to (0-based), one after the other.
Flat(lines, from, to) ==
    IF from > to THEN <<>> ELSE lines[from + 1] \o Flat(lines, from + 1, to)

\* The range the symbol search found, before the extension.
Nominal == searchSymbols(input.symbols, 1, input.start).range

\* The call returned a definition whose nominal end line, trimmed, ends with
\* an opening bracket.
EndsOpen ==
    /\ Returned /\ output.err = ""
    /\ isOpener(LastChar(TrimSpace(input.lines[Nominal.end.line + 1])))

NominalOpener == LastChar(TrimSpace(input.lines[Nominal.end.line + 1]))

\* What lies between the nominal end line and the k-th character of line l.
Body(l, k) ==
    Flat(input.lines, Nominal.end.line + 1, l - 1) \o SubSeq(input.lines[l + 1], 1, k - 1)

\* Every opening bracket of body is followed in it by a closer of its kind.
Closed(body) ==
    \A p \in 1..Len(body) :
        isOpener(body[p]) => \E q \in (p + 1)..Len(body) : closes(body[p], body[q])

\* The k-th character of line l closes the opener of the nominal end line
\* at its nesting depth: its kind is the opener's and every bracket between
\* the two is half of a pair that lies between them.
MatchesOpener(l, k) ==
    /\ closes(NominalOpener, input.lines[l + 1][k])
    /\ Reduce(BracketsOf(Body(l, k))) = <<>>

(***************************************************************************)
(* C16. When the trimmed nominal end line of a definition ends with an     *)
(* opening bracket, GetFullDefinition moves the end behind the closing     *)
(* bracket that matches that opener at its nesting depth; where it moves   *)
(* the end, the end is behind a closer of the opener's kind and every      *)
(* opener of the body has a closer of its kind after it, so a nested pair  *)
(* never ends the extension; with no closer of that kind in the rest of    *)
(* the file the nominal end stays; and the end is never on an earlier line *)
(* than the nominal end.                                                   *)
(***************************************************************************)
C16_RangeExtension ==
    EndsOpen =>
        /\ output.location.end.line >= Nominal.end.line
        /\ \A l \in (Nominal.end.line + 1)..(Len(input.lines) - 1) :
               \A k \in 1..Len(input.lines[l + 1]) :
                   MatchesOpener(l, k) => output.location.end = Position(l, k)
        /\ output.location.end # Nominal.end =>
               /\ output.location.end.line > Nominal.end.line
               /\ output.location.end.character >= 1
               /\ closes(NominalOpener,
                         input.lines[output.location.end.line + 1]
                                    [output.location.end.character])
               /\ Closed(Body(output.location.end.line, output.location.end.character))
        /\ (\A l \in (Nominal.end.line + 1)..(Len(input.lines) - 1) :
               \A k \in 1..Len(input.lines[l + 1]) :
                   ~closes(NominalOpener, input.lines[l + 1][k]))
               => output.location.end = Nominal.end
        /\ output.text = SubSeq(input.lines, 1, output.location.end.line + 1)

\* The end line "f { " was followed by "{", " }" and " }": the end has moved
\* behind the second closer, past the nested pair.
C16_Witness ==
    /\ EndsOpen
    /\ input.lines = <<<<"f", " ", "{", " ">>, <<"{">>, <<" ", "}">>, <<" ", "}">>>>
    /\ Nominal.end.line = 0
    /\ output.location.end = Position(3, 2)

(***************************************************************************)
(* FindReferences (internal/tools/find-references.go), stage 4: the        *)
(* rendering of one scope. The scope text is the sequence of its lines     *)
(* (strings.Split(scopeText, "\n")); the rendering is the sequence of the  *)
(* lines of the string appended to allReferences.                          *)
(***************************************************************************)
Digits == <<"0", "1", "2", "3", "4", "5", "6", "7", "8", "9">>

RECURSIVE Itoa(_)
\* strconv.Itoa and the verb %d, for a number that is not negative.
Itoa(n) == IF n < 10 THEN <<Digits[n + 1]>> ELSE Itoa(n \div 10) \o <<Digits[(n % 10) + 1]>>

IsDigit(c) == \E d \in 1..10 : Digits[d] = c

DigitValue(c) == (CHOOSE d \in 1..10 : Digits[d] = c) - 1

RECURSIVE Atoi(_, _)
\* The value of the digits s begins with, after the digits of value acc.
Atoi(s, acc) ==
    IF s = <<>> \/ ~IsDigit(Head(s)) THEN acc ELSE Atoi(Tail(s), acc * 10 + DigitValue(Head(s)))

Repeat(c, count) == [i \in 1..count |-> c]

\* s without the blanks it begins with.
SkipBlanks(s) ==
    IF NonSpace(s) = {} THEN <<>> ELSE SubSeq(s, MinOf(NonSpace(s)), Len(s))

SkippedText == <<"l", "i", "n", "e", "s", " ", "s", "k", "i", "p", "p", "e", "d">>

Ellipsis == <<".", ".", ".">>

\* fmt.Sprintf("    ... %d lines skipped ...", n)
SkipMarker(n) ==
    Repeat(" ", 4) \o Ellipsis \o <<" ">> \o Itoa(n) \o <<" ">> \o SkippedText
        \o <<" ">> \o Ellipsis

\* The number after an optional sign at the head of s, 0 when there is none.
ScanInt(s) ==
    IF s # <<>> /\ Head(s) = "-" THEN 0 - Atoi(Tail(s), 0)
    ELSE IF s # <<>> /\ Head(s) = "+" THEN Atoi(Tail(s), 0)
    ELSE Atoi(s, 0)

\* What fmt.Sscanf(line, "    ... %d lines skipped ...", &skipped) leaves in
\* skipped: blanks of the format match any run of blanks, the dots must be
\* there, and the number is stored whatever follows it; skipped stays 0 when
\* the scan fails before the number.
Sscanf(line) ==
    IF HasPrefix(SkipBlanks(line), Ellipsis)
    THEN ScanInt(SkipBlanks(SubSeq(SkipBlanks(line), 4, Len(SkipBlanks(line)))))
    ELSE 0

\* The first five lines, the last three, and the lines within two of a
\* highlighted one, as 0-based indices.
importantLines(n, highlightLineIndices) ==
    {i \in 0..(n - 1) : i < 5}
        \cup (IF n - 3 >= 0 THEN (n - 3)..(n - 1) ELSE {})
        \cup {i \in 0..(n - 1) :
                \E k \in 1..Len(highlightLineIndices) :
                    \E offset \in (0 - 2)..2 : highlightLineIndices[k] + offset = i}

TruncateStart ==
    [lines |-> <<>>, indexMap |-> <<>>, current |-> 0, inSkipSection |-> FALSE,
     lastShownIndex |-> 0 - 1]

truncateStep_CountsShown(t, i, line, important) ==
    IF important
    THEN [lines |-> (IF t.inSkipSection
                     THEN Append(t.lines, SkipMarker(i - t.lastShownIndex))
                     ELSE t.lines) \o <<line>>,
          indexMap |-> t.indexMap @@
                        (i :> (IF t.inSkipSection THEN t.current + 1 ELSE t.current)),
          current |-> (IF t.inSkipSection THEN t.current + 1 ELSE t.current) + 1,
          inSkipSection |-> FALSE,
          lastShownIndex |-> i]
    ELSE IF ~t.inSkipSection /\ t.lastShownIndex >= 0
    THEN [t EXCEPT !.inSkipSection = TRUE]
    ELSE t

\* One pass of the truncation loop, for the line of 0-based index i.
truncateStep(t, i, line, important) ==
    IF important
    THEN [lines |-> (IF t.inSkipSection
                     THEN Append(t.lines, SkipMarker(i - t.lastShownIndex - 1))
                     ELSE t.lines) \o <<line>>,
          indexMap |-> t.indexMap @@
                        (i :> (IF t.inSkipSection THEN t.current + 1 ELSE t.current)),
          current |-> (IF t.inSkipSection THEN t.current + 1 ELSE t.current) + 1,
          inSkipSection |-> FALSE,
          lastShownIndex |-> i]
    ELSE IF ~t.inSkipSection /\ t.lastShownIndex >= 0
    THEN [t EXCEPT !.inSkipSection = TRUE]
    ELSE t

RECURSIVE truncateLoop(_, _, _, _)
\* The truncation loop from index i on, t being its variables there.
truncateLoop(t, i, scopeLines, important) ==
    IF ~(i < Len(scopeLines)) THEN t
    ELSE CHOOSE r \in {truncateLoop(u, i + 1, scopeLines, important) :
                         u \in {truncateStep(t, i, scopeLines[i + 1], i \in important)}} :
             TRUE

\* The marker for lines skipped up to the end of the scope.
truncateEnd(t, n) ==
    IF t.inSkipSection /\ t.lastShownIndex < n - 1 /\ n - t.lastShownIndex - 1 > 0
    THEN [t EXCEPT !.lines = Append(@, SkipMarker(n - t.lastShownIndex - 1))]
    ELSE t

\* The highlighted indices that the map knows, mapped.
remapHighlights(highlightLineIndices, indexMap) ==
    [k \in 1..Len(SelectSeq(highlightLineIndices, LAMBDA h : h \in DOMAIN indexMap)) |->
        indexMap[SelectSeq(highlightLineIndices, LAMBDA h : h \in DOMAIN indexMap)[k]]]

\* finalScopeLines and finalHighlightIndices.
truncateScope(scopeLines, highlightLineIndices) ==
    IF Len(scopeLines) > 50
    THEN CHOOSE r \in
            {[lines |-> truncateEnd(t, Len(scopeLines)).lines,
              highlights |-> remapHighlights(highlightLineIndices, t.indexMap)] :
                t \in {truncateLoop(TruncateStart, 0, scopeLines,
                           importantLines(Len(scopeLines), highlightLineIndices))}} : TRUE
    ELSE [lines |-> scopeLines, highlights |-> highlightLineIndices]

isRef(i, finalHighlightIndices) ==
    \E k \in 1..Len(finalHighlightIndices) : finalHighlightIndices[k] = i

\* A regular code line as written to formattedScope.
formatLine(line, lineNum, ref, showLineNumbers) ==
    IF showLineNumbers
    THEN Repeat(" ", 5 - Len(Itoa(lineNum))) \o Itoa(lineNum)
            \o <<IF ref THEN ">" ELSE "|">> \o <<" ">> \o line
    ELSE (IF ref THEN <<">", " ">> ELSE <<" ", " ">>) \o line

RECURSIVE formatLoop(_, _, _, _, _, _)
\* The formatting loop from the line of 0-based index i on: the lines written
\* to formattedScope, or a panic when strings.Repeat is given a negative count.
formatLoop(f, i, lineNum, finalScopeLines, finalHighlightIndices, showLineNumbers) ==
    IF ~(i < Len(finalScopeLines)) THEN f
    ELSE IF Contains(finalScopeLines[i + 1], SkippedText)
    THEN CHOOSE r \in
            {formatLoop(g, i + 1, n, finalScopeLines, finalHighlightIndices, showLineNumbers) :
                g \in {[f EXCEPT !.lines = Append(@, finalScopeLines[i + 1])]},
                n \in {IF showLineNumbers THEN lineNum + Sscanf(finalScopeLines[i + 1])
                       ELSE lineNum}} : TRUE
    ELSE IF showLineNumbers /\ 5 - Len(Itoa(lineNum)) < 0
    THEN [f EXCEPT !.panic = TRUE]
    ELSE CHOOSE r \in
            {formatLoop(g, i + 1, n, finalScopeLines, finalHighlightIndices, showLineNumbers) :
                g \in {[f EXCEPT !.lines =
                           Append(@, formatLine(finalScopeLines[i + 1], lineNum,
                                                isRef(i, finalHighlightIndices),
                                                showLineNumbers))]},
                n \in {lineNum + 1}} : TRUE

IsCut(c) == c \in {" ", "\n", "\t"}

RECURSIVE TrimRightLines(_)
\* strings.TrimRight(text, " \n\t") on a text given as the lines that end
\* with "\n": the lines of what is left.
TrimRightLines(lines) ==
    IF lines = <<>> THEN <<>>
    ELSE IF \A k \in 1..Len(lines[Len(lines)]) : IsCut(lines[Len(lines)][k])
    THEN TrimRightLines(SubSeq(lines, 1, Len(lines) - 1))
    ELSE Append(SubSeq(lines, 1, Len(lines) - 1),
                SubSeq(lines[Len(lines)], 1,
                       MaxOf({k \in 1..Len(lines[Len(lines)]) :
                                ~IsCut(lines[Len(lines)][k])})))

\* "    " + strings.ReplaceAll(trimmedFormattedScope, "\n", "\n    ")
indentScope(lines) ==
    IF lines = <<>> THEN <<Repeat(" ", 4)>>
    ELSE [k \in 1..Len(lines) |-> Repeat(" ", 4) \o lines[k]]

\* call is [scopeLines, highlightLineIndices, startLine, showLineNumbers].
formatScope(call) ==
    CHOOSE r \in
        {IF f.panic THEN [lines |-> <<>>, panic |-> TRUE]
         ELSE [lines |-> indentScope(TrimRightLines(f.lines)), panic |-> FALSE] :
            f \in {formatLoop([lines |-> <<>>, panic |-> FALSE], 0, call.startLine + 1,
                              t.lines, t.highlights, call.showLineNumbers) :
                      t \in {truncateScope(call.scopeLines, call.highlightLineIndices)}}} : TRUE

(***************************************************************************)
(* The rendering as a specification: short scopes of up to MaxShortLines   *)
(* lines of any content of ShortLines, and long scopes of 51 to            *)
(* 50 + MaxLongExtra numbered lines, with one or two reference offsets.    *)
(***************************************************************************)
MaxShortLines == 3
MaxLongExtra == 2

ShortLines ==
    {<<"y", " ">>, <<"/", "/", " ">> \o SkippedText,
     Ellipsis \o <<" ", "2", " ">> \o SkippedText}

\* A scope of n lines, the k-th of them reading "l" and its number.
NumberedLines(n) == [k \in 1..n |-> <<"l">> \o Itoa(k)]

Highlights(n) ==
    {<<a>> : a \in 0..(n - 1)}
        \cup {h \in {<<a, b>> : a \in 0..(n - 1), b \in 0..(n - 1)} : h[1] <= h[2]}

RenderCalls ==
    {[scopeLines |-> t, highlightLineIndices |-> h, startLine |-> s, showLineNumbers |-> b] :
        t \in UNION {[1..n -> ShortLines] : n \in 1..MaxShortLines},
        h \in Highlights(MaxShortLines), s \in {0, 8}, b \in BOOLEAN}
    \cup
    {[scopeLines |-> <<l, l>>, highlightLineIndices |-> <<0>>, startLine |-> 99998,
      showLineNumbers |-> TRUE] : l \in ShortLines}
    \cup
    UNION {{[scopeLines |-> NumberedLines(n), highlightLineIndices |-> h, startLine |-> 0,
             showLineNumbers |-> b] : h \in Highlights(n), b \in BOOLEAN} :
           n \in 51..(50 + MaxLongExtra)}

InitRender ==
    /\ WatcherIdle
    /\ input \in {c \in RenderCalls :
                    \A k \in 1..Len(c.highlightLineIndices) :
                        c.highlightLineIndices[k] < Len(c.scopeLines)}

FormatScopeCall ==
    /\ output = <<>>
    /\ output' = formatScope(input)
    /\ UNCHANGED <<input, watcherVars>>

NextRender == FormatScopeCall

SpecRender == InitRender /\ [][NextRender]_vars

(***************************************************************************)
(* Claims about the rendering.                                             *)
(***************************************************************************)
\* s without the blanks and tabs it ends with.
TrimRightBlanks(s) ==
    IF \A k \in 1..Len(s) : IsCut(s[k]) THEN <<>>
    ELSE SubSeq(s, 1, MaxOf({k \in 1..Len(s) : ~IsCut(s[k])}))

\* The 0-based offset i is one of the reference offsets of the call.
IsReference(i) ==
    \E k \in 1..Len(input.highlightLineIndices) : input.highlightLineIndices[k] = i

\* The k-th line of the scope as the claim has it rendered: its number, the
\* marker and the line.
NumberedLine(k) ==
    Itoa(input.startLine + k) \o <<IF IsReference(k - 1) THEN ">" ELSE "|">>
        \o <<" ">> \o input.scopeLines[k]

(***************************************************************************)
(* C17. A scope of at most 50 lines rendered with line numbers comes out   *)
(* with every original line exactly once and in order, numbered            *)
(* sequentially from the scope's first line number, with the marker '>' on *)
(* exactly the lines at the reference offsets and '|' on every other line, *)
(* whatever the lines contain. (Leading padding is left open, and the      *)
(* blanks at the very end of the rendering are not compared.)              *)
(***************************************************************************)
C17_UntruncatedRendering ==
    (Returned /\ Len(input.scopeLines) <= 50 /\ input.showLineNumbers) =>
        /\ ~output.panic
        /\ Len(output.lines) = Len(input.scopeLines)
        /\ \A k \in 1..Len(input.scopeLines) :
               IF k < Len(input.scopeLines)
               THEN SkipBlanks(output.lines[k]) = NumberedLine(k)
               ELSE SkipBlanks(output.lines[k]) = TrimRightBlanks(NumberedLine(k))

\* The kept lines in the words of the claim, as 0-based offsets.
KeptByRule ==
    {i \in 0..(Len(input.scopeLines) - 1) :
        \/ i <= 4
        \/ i >= Len(input.scopeLines) - 3
        \/ \E k \in 1..Len(input.highlightLineIndices) :
               /\ i - input.highlightLineIndices[k] <= 2
               /\ input.highlightLineIndices[k] - i <= 2}

\* The offsets at which a maximal run of lines outside K begins.
RunStarts(K) ==
    {i \in 1..(Len(input.scopeLines) - 1) : i \notin K /\ (i - 1) \in K}

\* The length of the run outside K that begins at offset a.
RunLength(K, a) == MinOf({i \in K : i > a}) - a

\* The members of S among the offsets of the scope, in order.
InOrder(S) == SelectSeq([k \in 1..Len(input.scopeLines) |-> k - 1], LAMBDA i : i \in S)

\* What stands for the item at offset i in the truncated scope: the line,
\* when it is kept, or the one marker of the run that begins there.
ExpectedLine(K, i) ==
    IF i \in K THEN input.scopeLines[i + 1] ELSE SkipMarker(RunLength(K, i))

ExpectedRendering(K, i) ==
    Repeat(" ", 4) \o
        (IF i \in K
         THEN formatLine(input.scopeLines[i + 1], input.startLine + 1 + i,
                         IsReference(i), input.showLineNumbers)
         ELSE SkipMarker(RunLength(K, i)))

RECURSIVE SkippedSum(_)
\* The sum of the numbers of the skip markers among lines.
SkippedSum(lines) ==
    IF lines = <<>> THEN 0
    ELSE (IF Contains(Head(lines), SkippedText) THEN Sscanf(Head(lines)) ELSE 0)
             + SkippedSum(Tail(lines))

KeptCount(lines) == Len(SelectSeq(lines, LAMBDA l : ~Contains(l, SkippedText)))

(***************************************************************************)
(* C18. For a scope of more than 50 lines the kept lines are exactly the   *)
(* first 5, the last 3 and every line within 2 of a highlighted offset;    *)
(* each maximal run of lines not kept is replaced by exactly one skip      *)
(* marker whose number is the length of the run; and the numbers of the    *)
(* skip markers and the number of kept lines add up to the original line   *)
(* count. The rendering shows these lines and markers, the kept lines      *)
(* under their original numbers and highlights.                            *)
(***************************************************************************)
C18_TruncatedRendering ==
    (Returned /\ Len(input.scopeLines) > 50) =>
        \A K \in {KeptByRule} :
            \A items \in {InOrder(K \cup RunStarts(K))} :
                \A t \in {truncateScope(input.scopeLines, input.highlightLineIndices)} :
                    /\ importantLines(Len(input.scopeLines), input.highlightLineIndices) = K
                    /\ Len(t.lines) = Len(items)
                    /\ \A j \in 1..Len(items) : t.lines[j] = ExpectedLine(K, items[j])
                    /\ SkippedSum(t.lines) + KeptCount(t.lines) = Len(input.scopeLines)
                    /\ KeptCount(t.lines) = Cardinality(K)
                    /\ ~output.panic
                    /\ Len(output.lines) = Len(items)
                    /\ \A j \in 1..Len(items) :
                           output.lines[j] = ExpectedRendering(K, items[j])

\* A scope of 51 lines with references at offsets 10 and 30 was rendered:
\* 18 kept lines and the markers of the three runs 5..7, 13..27 and 33..47.
C18_Witness ==
    /\ Returned /\ Len(input.scopeLines) = 51 /\ input.showLineNumbers
    /\ input.highlightLineIndices = <<10, 30>>
    /\ Len(output.lines) = 21
    /\ output.lines[6] = Repeat(" ", 4) \o SkipMarker(3)
    /\ output.lines[12] = Repeat(" ", 4) \o SkipMarker(15)

(***************************************************************************)
(* matchesPattern for a pattern without a base path, as a specification:   *)
(* a call with a path of GlobPaths and a pattern of GlobPatterns, and its  *)
(* return. A pattern is given with its text; a brace pattern also with the *)
(* prefix, the alternatives and the suffix its text is written from.       *)
(***************************************************************************)
GlobPaths ==
    {<<"a", "/", "b", "/", "c", ".", "g", "o">>, <<"g", "o", ".", "s", "u", "m">>,
     <<"m", "a", "i", "n", ".", "g", "o">>, <<"m", "a", "i", "n", ".", "g", "o", "o">>,
     <<"g", "o", ".", "m", "o", "d">>, <<"a", "/", "m", "a", "i", "n", ".", "g", "o">>,
     <<"a", ".", "g", "o", "/", "b">>, <<"s", "r", "c", "/", "x", ".", "s", "u", "m">>,
     <<"m", "a", "i", "n">>, <<"b", "/", "c", ".", "g", "o", ".", "x">>}

PlainPattern(text) == [text |-> text, brace |-> FALSE, prefix |-> <<>>, alts |-> <<>>,
                       suffix |-> <<>>]

BracePattern(prefix, alts, suffix) ==
    [text |-> prefix \o <<"{">> \o Join(alts, <<",">>) \o <<"}">> \o suffix,
     brace |-> TRUE, prefix |-> prefix, alts |-> alts, suffix |-> suffix]

GlobPatterns ==
    {PlainPattern(<<"*", "*", "/", "*", ".", "g", "o">>),
     PlainPattern(<<"*", ".", "g", "o">>),
     PlainPattern(<<"m", "a", "i", "n", ".", "g", "o">>),
     PlainPattern(<<"*", "*", "/", "c", ".", "g", "o">>),
     PlainPattern(<<"a", "/", "*", "*">>),
     PlainPattern(<<"a", "/", "*", "*", "/", "c", ".", "g", "o">>),
     PlainPattern(<<"m", "?", "i", "n", ".", "g", "o">>), PlainPattern(<<"*">>)}
    \cup
    {BracePattern(<<"*", ".">>, <<<<"g", "o">>, <<"m", "o", "d">>, <<"s", "u", "m">>>>, <<>>),
     BracePattern(<<>>, <<<<"m", "a", "i", "n">>, <<"g", "o">>>>, <<".", "*">>),
     BracePattern(<<"*", "*", "/", "*", ".">>, <<<<"g", "o">>, <<"s", "u", "m">>>>, <<>>),
     BracePattern(<<"a", "/">>, <<<<"b">>, <<"x">>>>, <<"/", "c", ".", "g", "o">>),
     BracePattern(<<"m", "a", "i", "n", ".">>, <<<<"g", "o">>>>, <<>>),
     BracePattern(<<"*", ".">>, <<<<"g">>, <<>>>>, <<"o">>),
     BracePattern(<<"*", ".">>, <<<<"g", "o">>, <<"m", "o", "d">>>>, <<"{", ",", "o", "}">>)}

InitGlob == WatcherIdle /\ input \in [path : GlobPaths, pattern : GlobPatterns]

MatchesPatternCall ==
    /\ output = <<>>
    /\ output' = [matched |-> matchesPattern(input.path,
                                 [basePath |-> <<>>, pattern |-> input.pattern.text])]
    /\ UNCHANGED <<input, watcherVars>>

NextGlob == MatchesPatternCall

SpecGlob == InitGlob /\ [][NextGlob]_vars

(***************************************************************************)
(* Claims about the glob matcher.                                          *)
(***************************************************************************)
\* The call was matchesPattern(path, pattern) and has returned.
Called(path, pattern) == Returned /\ input.path = path /\ input.pattern.text = pattern

\* The text prefix alt suffix of an alternative, as one pattern of its own,
\* matches the full path or its base name.
AlternativeMatches(text, path) ==
    matchesSimpleGlob(text, path) \/ matchesSimpleGlob(text, Base(path))

(***************************************************************************)
(* C19. Without a base path, matchesPattern succeeds exactly when the glob *)
(* evaluation succeeds on the full path or on the path's base name:        *)
(* "**/*.go" matches "a/b/c.go", "*.{go,mod,sum}" matches "go.sum", "*.go" *)
(* matches "main.go" and "*.go" does not match "main.goo"; and a brace     *)
(* pattern prefix{a,b,...}suffix matches exactly when at least one of the  *)
(* patterns prefix a suffix, prefix b suffix, ... matches.                 *)
(***************************************************************************)
C19_GlobWithoutBasePath ==
    Returned =>
        /\ output.matched <=> (\/ matchesGlob(input.pattern.text, input.path)
                               \/ matchesGlob(input.pattern.text, Base(input.path)))
        /\ Called(<<"a", "/", "b", "/", "c", ".", "g", "o">>, <<"*", "*", "/", "*", ".", "g", "o">>) => output.matched
        /\ Called(<<"g", "o", ".", "s", "u", "m">>, BracePattern(<<"*", ".">>, <<<<"g", "o">>, <<"m", "o", "d">>, <<"s", "u", "m">>>>, <<>>).text) => output.matched
        /\ Called(<<"m", "a", "i", "n", ".", "g", "o">>, <<"*", ".", "g", "o">>) => output.matched
        /\ Called(<<"m", "a", "i", "n", ".", "g", "o", "o">>, <<"*", ".", "g", "o">>) => ~output.matched
        /\ input.pattern.brace =>
               (output.matched <=>
                    \E k \in 1..Len(input.pattern.alts) :
                        AlternativeMatches(input.pattern.prefix \o input.pattern.alts[k]
                                               \o input.pattern.suffix, input.path))

\* "*.{go,mod,sum}" was matched against "go.sum", through its third
\* alternative only.
C19_Witness ==
    /\ Called(<<"g", "o", ".", "s", "u", "m">>, BracePattern(<<"*", ".">>, <<<<"g", "o">>, <<"m", "o", "d">>, <<"s", "u", "m">>>>, <<>>).text)
    /\ output.matched
    /\ ~AlternativeMatches(<<"*", ".", "g", "o">>, input.path)
    /\ AlternativeMatches(<<"*", ".", "s", "u", "m">>, input.path)

(***************************************************************************)
(* C20. The debounce table: in every reachable state, whatever the         *)
(* interleaving of debounceHandleFileEvent calls and timer functions, a    *)
(* key has at most one live timer (started and neither fired nor stopped); *)
(* a new event for a key stops and replaces the pending timer of that key, *)
(* so the live timer is the newest of its key; and a timer function        *)
(* removes only its own entry of the table, so a live timer is the entry   *)
(* of its key.                                                             *)
(***************************************************************************)
C20_DebounceTable ==
    /\ \A key \in DebounceKeys : Cardinality({i \in TimersOf(key) : Live(i)}) <= 1
    /\ \A i \in 1..Len(timers) :
           Live(i) => \A j \in TimersOf(timers[i].key) : j <= i
    /\ \A i \in 1..Len(timers) :
           Live(i) => /\ timers[i].key \in DOMAIN debounceMap
                      /\ debounceMap[timers[i].key] = i

(***************************************************************************)
(* The watcher's threads and its two locks, one lock operation a step.     *)
(* A thread is [kind, pc, name, op, type, ret, timer, todo, watchers]:     *)
(* kind is "loop" (WatchWorkspace), "timer" (the function of a timer),     *)
(* "register" (an AddRegistrations call) or "walk" (the goroutine that     *)
(* call starts); pc is the statement the thread is at. A thread at         *)
(* "handleFileEvent" or "OpenFile" is inside the external client, and      *)
(* nothing obliges the client to return.                                   *)
(***************************************************************************)
Thread(kind, pc) ==
    [kind |-> kind, pc |-> pc, name |-> <<>>, op |-> {}, type |-> "None", ret |-> "none",
     timer |-> 0, todo |-> <<>>, watchers |-> <<>>]

\* The statements of debounceHandleFileEvent, in order.
debounceFunc == <<"debounceMu.Lock", "AfterFunc", "debounceMu.Unlock", "return">>

\* A variant of the timer's function that takes the mutex before it notifies.
timerFunc_LockFirst ==
    <<"go", "debounceMu.Lock", "handleFileEvent", "delete", "debounceMu.Unlock", "return">>

\* The statements of the function debounceHandleFileEvent hands to
\* time.AfterFunc, in order.
timerFunc ==
    <<"go", "handleFileEvent", "debounceMu.Lock", "delete", "debounceMu.Unlock", "return">>

\* The statements of AddRegistrations, in order.
addRegistrationsFunc ==
    <<"registrationMu.Lock", "append", "registrationMu.Unlock", "return">>

\* The statements of isPathWatched, in order.
isPathWatchedFunc == <<"registrationMu.RLock", "registrationMu.RUnlock", "return">>

\* The statement after pc in a function.
NextPc(func, pc) == func[(CHOOSE i \in 1..Len(func) : func[i] = pc) + 1]

\* Where a thread goes on when the function it is in returns.
Return(t) ==
    IF threads[t].kind = "loop" THEN "select"
    ELSE IF threads[t].kind = "walk" THEN "WalkDir"
    ELSE "done"

\* filepath.WalkDir hands the next file to the callback, which hands it to
\* openMatchingFile; that asks isPathWatched unless the file is gone or
\* excluded. After the last file the goroutine ends.
RECURSIVE walkNext(_)
walkNext(walk) ==
    IF walk.todo = <<>> THEN Thread("walk", "done")
    ELSE LET p == Head(walk.todo)
             next == [walk EXCEPT !.todo = Tail(@), !.name = p, !.ret = "openMatchingFile"]
         IN  IF StatOk(p) /\ ~IsDir(p) /\ ~shouldExcludeFile(p)
             THEN [next EXCEPT !.pc = "registrationMu.RLock"]
             ELSE walkNext(next)

\* The statement after the one thread t is at.
Step(t, func) ==
    LET pc == NextPc(func, threads[t].pc)
    IN  IF pc = "return" THEN Return(t) ELSE pc

\* The threads are known by what started them: the loop, the timer whose
\* function the thread runs, the AddRegistrations call.
LoopThread == <<"loop">>

TimerThread(i) == <<"timer", i>>

RegisterThread(n) == <<"register", n>>

WalkThread(n) == <<"walk", n>>

Spawn(ths, t, thread) == [u \in DOMAIN ths \cup {t} |-> IF u = t THEN thread ELSE ths[u]]

At(t, pc) == t \in DOMAIN threads /\ threads[t].pc = pc

\* Thread t goes to pc; the locals of a function are gone when it has
\* returned to the select or ended its thread, and a walk goes on with its
\* next file.
Goto(t, pc) ==
    [threads EXCEPT ![t] = IF pc \in {"select", "done"} THEN Thread(@.kind, pc)
                           ELSE IF pc = "WalkDir" THEN walkNext(@)
                           ELSE [@ EXCEPT !.pc = pc]]

\* The events the loop receives in this specification.
LockEvents ==
    {[name |-> PathA, op |-> {"Write"}], [name |-> PathA, op |-> {"Create"}],
     [name |-> PathA, op |-> {"Remove"}]}

LockRegs == {<<RegGoAll>>}

\* The event a thread of the loop is processing.
EventOf(t) == [name |-> threads[t].name, op |-> threads[t].op]

\* case event, ok := <-watcher.Events: the loop takes an event; a newly
\* created file that is not excluded goes to openMatchingFile first.
LockReceive(ev) ==
    /\ At(LoopThread, "select") /\ nEvents < MaxEvents
    /\ nEvents' = nEvents + 1
    /\ threads' = [threads EXCEPT ![LoopThread].name = ev.name, ![LoopThread].op = ev.op,
                      ![LoopThread].pc = isPathWatchedFunc[1],
                      ![LoopThread].ret = IF "Create" \in ev.op /\ StatOk(ev.name) /\ ~IsDir(ev.name)
                                    /\ ~shouldExcludeFile(ev.name)
                                 THEN "openMatchingFile" ELSE "switch"]
    /\ UNCHANGED <<toolVars, exists, events, clientVars, regVars, loopVars, debounceVars,
                   notifyVars, debounceMu, registrationMu>>

\* w.registrationMu.RLock() in isPathWatched: a reader waits for the writer
\* that holds the lock and for a writer that waits for it.
CanRLock ==
    /\ registrationMu.writer = Free
    /\ \A u \in DOMAIN threads : threads[u].pc # "registrationMu.Lock"

RLock(t) ==
    /\ At(t, "registrationMu.RLock")
    /\ CanRLock
    /\ registrationMu' = [registrationMu EXCEPT !.readers = @ \cup {t}]
    /\ threads' = Goto(t, NextPc(isPathWatchedFunc, threads[t].pc))
    /\ UNCHANGED <<toolVars, fsVars, clientVars, regVars, loopVars, debounceVars, notifyVars,
                   debounceMu>>

\* Where the caller of isPathWatched goes on with its result.
AfterIsPathWatched(t) ==
    LET ev == EventOf(t)
    IN  IF threads[t].ret = "openMatchingFile"
        THEN IF isPathWatched(ev.name).watched THEN Goto(t, "OpenFile")
             ELSE IF threads[t].kind = "loop"
                  THEN [threads EXCEPT ![t].pc = isPathWatchedFunc[1], ![t].ret = "switch"]
                  ELSE Goto(t, Return(t))
        ELSE IF EventSchedules(ev) # "None"
             THEN [threads EXCEPT ![t].pc = debounceFunc[1], ![t].type = EventSchedules(ev)]
        ELSE IF EventDeletes(ev)
             THEN [threads EXCEPT ![t].pc = "handleFileEvent", ![t].type = "Deleted"]
        ELSE Goto(t, Return(t))

\* isPathWatched has read the registrations and returns: the deferred
\* w.registrationMu.RUnlock().
RUnlock(t) ==
    /\ At(t, "registrationMu.RUnlock")
    /\ registrationMu' = [registrationMu EXCEPT !.readers = @ \ {t}]
    /\ threads' = AfterIsPathWatched(t)
    /\ UNCHANGED <<toolVars, fsVars, clientVars, regVars, loopVars, debounceVars, notifyVars,
                   debounceMu>>

\* w.client.OpenFile(ctx, path) in openMatchingFile returns.
OpenFileReturn(t) ==
    /\ At(t, "OpenFile")
    /\ openFiles' = ClientOpenFile(openFiles, threads[t].name)
    /\ openCalls' = [openCalls EXCEPT ![threads[t].name] = @ + 1]
    /\ threads' = IF threads[t].kind = "loop"
                  THEN [threads EXCEPT ![t].pc = isPathWatchedFunc[1], ![t].ret = "switch"]
                  ELSE Goto(t, Return(t))
    /\ UNCHANGED <<toolVars, fsVars, regVars, loopVars, debounceVars, notifyVars, debounceMu,
                   registrationMu>>

\* The function a thread that is at a debounceMu statement is in.
MuFunc(t) == IF threads[t].kind = "timer" THEN timerFunc ELSE debounceFunc

\* w.debounceMu.Lock()
CanLock == debounceMu = Free

Lock(t) ==
    /\ At(t, "debounceMu.Lock")
    /\ CanLock
    /\ debounceMu' = t
    /\ threads' = Goto(t, Step(t, MuFunc(t)))
    /\ UNCHANGED <<toolVars, fsVars, clientVars, regVars, loopVars, debounceVars, notifyVars,
                   registrationMu>>

\* The body of debounceHandleFileEvent: the timer of the key is stopped and
\* time.AfterFunc starts the new one.
AfterFunc(t) ==
    /\ At(t, "AfterFunc")
    /\ LET r == debounceHandleFileEvent(URI(threads[t].name), threads[t].type)
       IN  debounceMap' = r.debounceMap /\ timers' = r.timers
    /\ threads' = Goto(t, Step(t, debounceFunc))
    /\ UNCHANGED <<toolVars, fsVars, clientVars, regVars, loopVars, notifyVars, debounceMu,
                   registrationMu>>

\* w.debounceMu.Unlock()
Unlock(t) ==
    /\ At(t, "debounceMu.Unlock")
    /\ debounceMu' = IF debounceMu = t THEN Free ELSE debounceMu
    /\ threads' = Goto(t, Step(t, MuFunc(t)))
    /\ UNCHANGED <<toolVars, fsVars, clientVars, regVars, loopVars, debounceVars, notifyVars,
                   registrationMu>>

\* The runtime starts the function of a timer that is due, on a thread of
\* its own.
TimerStart(i) ==
    /\ i \in 1..Len(timers)
    /\ timers[i].state = "pending" /\ timers[i].rem = 0
    /\ timers' = [timers EXCEPT ![i].state = "running"]
    /\ threads' = Spawn(threads, TimerThread(i),
                         [Thread("timer", NextPc(timerFunc, "go")) EXCEPT
                             !.name = SubSeq(timers[i].uri, 8, Len(timers[i].uri)),
                             !.type = timers[i].type, !.timer = i])
    /\ UNCHANGED <<toolVars, fsVars, clientVars, regVars, loopVars, debounceMap, notifyVars,
                   debounceMu, registrationMu>>

\* w.handleFileEvent(ctx, uri, changeType) returns: the client has taken
\* the notification.
HandleFileEventReturn(t) ==
    /\ At(t, "handleFileEvent")
    /\ sent' = sent \o handleFileEvent(URI(threads[t].name), threads[t].type)
    /\ threads' = Goto(t, IF threads[t].kind = "timer" THEN Step(t, timerFunc) ELSE Return(t))
    /\ UNCHANGED <<toolVars, fsVars, clientVars, regVars, loopVars, debounceVars, calls,
                   debounceMu, registrationMu>>

\* delete(w.debounceMap, key) in the timer's function.
DeleteEntry(t) ==
    /\ At(t, "delete")
    /\ debounceMap' = [k \in DOMAIN debounceMap \ {timers[threads[t].timer].key} |->
                          debounceMap[k]]
    /\ timers' = [timers EXCEPT ![threads[t].timer].state = "done"]
    /\ threads' = Goto(t, Step(t, timerFunc))
    /\ UNCHANGED <<toolVars, fsVars, clientVars, regVars, loopVars, notifyVars, debounceMu,
                   registrationMu>>

\* The server registers watchers: a thread enters AddRegistrations.
AddRegistrationsCall(ws) ==
    /\ regCalls < MaxRegCalls
    /\ regCalls' = regCalls + 1
    /\ threads' = Spawn(threads, RegisterThread(regCalls + 1),
                        [Thread("register", addRegistrationsFunc[1]) EXCEPT !.watchers = ws])
    /\ UNCHANGED <<toolVars, fsVars, clientVars, registrations, walks, loopVars, debounceVars,
                   notifyVars, debounceMu, registrationMu>>

\* w.registrationMu.Lock(): the writer waits for the readers and the writer
\* that hold the lock.
CanLockRegistrationMu == registrationMu = [writer |-> Free, readers |-> {}]

RegLock(t) ==
    /\ At(t, "registrationMu.Lock")
    /\ CanLockRegistrationMu
    /\ registrationMu' = [registrationMu EXCEPT !.writer = t]
    /\ threads' = Goto(t, Step(t, addRegistrationsFunc))
    /\ UNCHANGED <<toolVars, fsVars, clientVars, regVars, loopVars, debounceVars, notifyVars,
                   debounceMu>>

\* The files filepath.WalkDir hands to the callback, in its order.
WalkTodo == SelectSeq(WalkOrder, LAMBDA p : p \in exists /\ ~IsDir(p))

\* The body of AddRegistrations: the watchers are appended and the
\* goroutine that opens the matching files is started.
RegAppend(t) ==
    /\ At(t, "append")
    /\ registrations' = registrations \o threads[t].watchers
    /\ threads' = Spawn(Goto(t, Step(t, addRegistrationsFunc)), WalkThread(t[2]),
                        walkNext([Thread("walk", "WalkDir") EXCEPT !.todo = WalkTodo]))
    /\ UNCHANGED <<toolVars, fsVars, clientVars, regCalls, walks, loopVars, debounceVars,
                   notifyVars, debounceMu, registrationMu>>

\* The deferred w.registrationMu.Unlock()
RegUnlock(t) ==
    /\ At(t, "registrationMu.Unlock")
    /\ registrationMu' = [registrationMu EXCEPT !.writer = IF @ = t THEN Free ELSE @]
    /\ threads' = Goto(t, Step(t, addRegistrationsFunc))
    /\ UNCHANGED <<toolVars, fsVars, clientVars, regVars, loopVars, debounceVars, notifyVars,
                   debounceMu>>

\* The watcher with its loop at the select.
InitLocks ==
    /\ exists = {PathA}
    /\ openFiles = {}
    /\ openCalls = [p \in FilePaths |-> 0]
    /\ registrations = <<>>
    /\ regCalls = 0
    /\ walks = <<>>
    /\ watched = {workspacePath}
    /\ events = <<>>
    /\ nEvents = 0
    /\ errors = 0
    /\ nErrors = 0
    /\ srcClosed = FALSE
    /\ cancelled = FALSE
    /\ loop = "select"
    /\ errLogged = 0
    /\ handled = [n |-> 0, afterCancel |-> 0, afterError |-> 0, pendingAtDelete |-> {}]
    /\ debounceMap = <<>>
    /\ timers = <<>>
    /\ calls = NoCall
    /\ sent = <<>>
    /\ input = <<>>
    /\ output = <<>>
    /\ debounceMu = Free
    /\ registrationMu = [writer |-> Free, readers |-> {}]
    /\ threads = Spawn(<<>>, LoopThread, Thread("loop", "select"))

\* A step of thread t that is not a wait for the external client.
LockStep(t) ==
    \/ RLock(t) \/ RUnlock(t)
    \/ Lock(t) \/ AfterFunc(t) \/ Unlock(t) \/ DeleteEntry(t)
    \/ RegLock(t) \/ RegAppend(t) \/ RegUnlock(t)

NextLocks ==
    \/ \E ev \in LockEvents : LockReceive(ev)
    \/ \E ws \in LockRegs : AddRegistrationsCall(ws)
    \/ \E i \in 1..Len(timers) : TimerStart(i)
    \/ \E t \in DOMAIN threads : LockStep(t)
    \/ \E t \in DOMAIN threads : OpenFileReturn(t)
    \/ \E t \in DOMAIN threads : HandleFileEventReturn(t)
    \/ Tick

SpecLocks == InitLocks /\ [][NextLocks]_vars

(***************************************************************************)
(* Claim vocabulary of the threads.                                        *)
(***************************************************************************)
Threads == DOMAIN threads

\* The key a thread's notification or schedule call is for.
KeyOf(t) == Key(URI(threads[t].name), threads[t].type)

\* Thread t is inside a notification action: handleFileEvent and the client
\* calls it makes.
Notifying(t) == At(t, "handleFileEvent")

\* Thread t holds the registration lock, as its writer or as a reader.
HoldsRegistrationMu(t) == registrationMu.writer = t \/ t \in registrationMu.readers

\* The threads that hold a lock.
Holders ==
    {t \in Threads : debounceMu = t \/ HoldsRegistrationMu(t)}

\* The threads that wait for a lock.
Waiting ==
    {t \in Threads : threads[t].pc \in {"debounceMu.Lock", "registrationMu.Lock",
                                        "registrationMu.RLock"}}

\* Thread t can take its next step: the lock it asks for can be taken, or
\* it is at a statement inside a function of the watcher that waits for
\* nothing. A thread inside the client waits for the client.
Runnable(t) ==
    \/ At(t, "debounceMu.Lock") /\ CanLock
    \/ At(t, "registrationMu.RLock") /\ CanRLock
    \/ At(t, "registrationMu.Lock") /\ CanLockRegistrationMu
    \/ threads[t].pc \in {"AfterFunc", "delete", "debounceMu.Unlock", "append",
                          "registrationMu.Unlock", "registrationMu.RUnlock"}

\* This step is a schedule call's table update: it started a timer.
Scheduled == Len(timers') = Len(timers) + 1

(***************************************************************************)
(* C21. Key independence. The step of a schedule call for key k1 that      *)
(* updates the table leaves every timer of every other key k2 as it was    *)
(* (neither stopped nor replaced, and with the same time left) and leaves  *)
(* k2's table entry as it was. While a notification for k1 is inside the   *)
(* external client, its thread holds neither lock; a schedule call for     *)
(* another key k2 that waits for the debounce mutex can take it, or the    *)
(* mutex is held by another thread that can take its next step; and a      *)
(* timer of k2 that is due can be dispatched.                              *)
(***************************************************************************)
C21_KeyIndependence ==
    /\ [][Scheduled =>
            LET k1 == timers'[Len(timers')].key
            IN  /\ \A i \in 1..Len(timers) : timers[i].key # k1 => timers'[i] = timers[i]
                /\ \A k2 \in (DOMAIN debounceMap \cup DOMAIN debounceMap') \ {k1} :
                      /\ k2 \in DOMAIN debounceMap /\ k2 \in DOMAIN debounceMap'
                      /\ debounceMap'[k2] = debounceMap[k2]]_vars
    /\ [](\A t \in Threads : Notifying(t) =>
            /\ debounceMu # t /\ ~HoldsRegistrationMu(t)
            /\ \A u \in Threads : At(u, "debounceMu.Lock") /\ KeyOf(u) # KeyOf(t) =>
                  \/ ENABLED Lock(u)
                  \/ debounceMu \in Threads \ {t} /\ Runnable(debounceMu)
            /\ \A i \in 1..Len(timers) :
                  timers[i].key # KeyOf(t) /\ Live(i) /\ timers[i].rem = 0 =>
                     ENABLED TimerStart(i))

\* A notification for one key is inside the client while the timer of
\* another key, started before it, is pending and due.
C21_Witness ==
    \E t \in Threads : \E j \in 1..Len(timers) :
        /\ Notifying(t) /\ threads[t].kind = "timer"
        /\ j < threads[t].timer
        /\ timers[j].key # KeyOf(t)
        /\ Live(j) /\ timers[j].rem = 0

(***************************************************************************)
(* C22. Lock discipline. A thread that is inside a notification action     *)
(* (handleFileEvent and the client calls it makes) does not hold the       *)
(* debounce mutex. The timer table changes only in a step of the thread    *)
(* that holds the debounce mutex. No thread holds the debounce mutex and   *)
(* the registration lock at the same time. And the loop, the registration  *)
(* calls, the walks and the timer functions cannot deadlock on the locks:  *)
(* a thread that holds a lock can always take its next step, so it waits   *)
(* neither for the other lock nor for the client, and when a thread waits  *)
(* for a lock some thread can take a step.                                 *)
(***************************************************************************)
C22_LockDiscipline ==
    /\ [](\A t \in Threads :
            /\ Notifying(t) => debounceMu # t
            /\ ~(debounceMu = t /\ HoldsRegistrationMu(t)))
    /\ [][debounceMap' # debounceMap =>
            /\ debounceMu \in Threads /\ debounceMu' = debounceMu
            /\ \A t \in Threads \ {debounceMu} : threads'[t] = threads[t]]_vars
    /\ [](\A t \in Holders : Runnable(t))
    /\ [](Waiting # {} => \E t \in Threads : Runnable(t))

\* A timer's function is inside its notification while another thread holds
\* the debounce mutex, a third holds the registration lock and a fourth
\* waits for it.
C22_Witness ==
    \E t, u, v, w \in Threads :
        /\ Notifying(t) /\ threads[t].kind = "timer"
        /\ debounceMu = u
        /\ registrationMu.writer = v
        /\ At(w, "registrationMu.RLock")

(***************************************************************************)
(* The walk over a workspace that another process changes meanwhile: an    *)
(* entry the walk has read from its directory may be gone, or unreadable,  *)
(* when the walk gets to it.                                               *)
(***************************************************************************)
\* Entries that disappear in one run.
MaxVanish == 1

WalkErrFiles == {PathA, PathDir, PathSub, PathLast}

\* The entry and everything below it.
Subtree(p) == {q \in FilePaths \cup DirPaths : q = p \/ HasPrefix(q, p \o <<"/">>)}

\* An entry is removed, with the entries below it.
Vanish(p) ==
    /\ p \in exists
    /\ Cardinality(WalkErrFiles \ exists) < MaxVanish
    /\ exists' = exists \ Subtree(p)
    /\ UNCHANGED <<toolVars, lockVars, events, nEvents, clientVars, regVars, loopVars,
                   debounceVars, notifyVars>>

InitWalkErr ==
    /\ exists = WalkErrFiles
    /\ openFiles = {}
    /\ openCalls = [p \in FilePaths |-> 0]
    /\ registrations = <<>>
    /\ regCalls = 0
    /\ walks = <<>>
    /\ watched = InitialWatched(WalkErrFiles)
    /\ events = <<>>
    /\ nEvents = 0
    /\ errors = 0
    /\ nErrors = 0
    /\ srcClosed = FALSE
    /\ cancelled = FALSE
    /\ loop = "select"
    /\ errLogged = 0
    /\ handled = [n |-> 0, afterCancel |-> 0, afterError |-> 0, pendingAtDelete |-> {}]
    /\ debounceMap = <<>>
    /\ timers = <<>>
    /\ calls = NoCall
    /\ sent = <<>>
    /\ input = <<>>
    /\ output = <<>>
    /\ LocksIdle

NextWalkErr ==
    \/ \E ws \in WalkInputs : regCalls < MaxWalks /\ AddRegistrations(ws)
    \/ \E i \in 1..Len(walks) : WalkStep(i)
    \/ \E p \in WalkErrFiles : Vanish(p)

SpecWalkErr == InitWalkErr /\ [][NextWalkErr]_vars

(***************************************************************************)
(* C23. An I/O error on one item of the bulk-open walk skips that item     *)
(* only: when a walk is through, it has called client.OpenFile for every   *)
(* file that still exists under the root, is outside excluded directories, *)
(* is not excluded and is watched by the registrations the walk started    *)
(* with, whatever entries could not be read or stat'ed on the way.         *)
(***************************************************************************)
C23_WalkSkipsBadItemOnly ==
    \A i \in 1..Len(walks) :
        walks[i].todo = <<>> => Eligible(i) \subseteq walks[i].opened

(***************************************************************************)
(* The loop over a workspace in which directories are created and removed: *)
(* a directory that is not excluded, with a file in it, and node_modules.  *)
(***************************************************************************)
DirEventPaths == {PathDir, PathSub, PathNM}

InitDirs ==
    /\ exists \in {{PathA}, {PathA, PathDir}, {PathA, PathNM}}
    /\ openFiles = {}
    /\ openCalls = [p \in FilePaths |-> 0]
    /\ registrations = <<>>
    /\ regCalls = 0
    /\ walks = <<>>
    /\ watched = InitialWatched(exists)
    /\ events = <<>>
    /\ nEvents = 0
    /\ errors = 0
    /\ nErrors = 0
    /\ srcClosed = FALSE
    /\ cancelled = FALSE
    /\ loop = "select"
    /\ errLogged = 0
    /\ handled = [n |-> 0, afterCancel |-> 0, afterError |-> 0, pendingAtDelete |-> {}]
    /\ debounceMap = <<>>
    /\ timers = <<>>
    /\ calls = NoCall
    /\ sent = <<>>
    /\ input = <<>>
    /\ output = <<>>
    /\ LocksIdle

NextDirs ==
    \/ \E p \in DirEventPaths : FsCreate(p)
    \/ \E p \in DirEventPaths : FsRemove(p)
    \/ \E p \in {PathA, PathSub} : FsWrite(p)
    \/ LoopEvent
    \/ \E i \in 1..Len(timers) : TimerFire(i)
    \/ \E i \in 1..Len(timers) : TimerCleanup(i)
    \/ Tick

SpecDirs == InitDirs /\ [][NextDirs]_vars

\* This step is the loop processing a Create event for a path that is a
\* directory when the loop looks at it.
CreatesDirectory ==
    /\ events # <<>> /\ events' = Tail(events)
    /\ "Create" \in Head(events).op
    /\ StatOk(Head(events).name) /\ IsDir(Head(events).name)

(***************************************************************************)
(* C24. The watched-directory set. When the loop processes a Create event  *)
(* for a path that is a directory, the directory is added to the watched   *)
(* set if shouldExcludeDir is false for it and the set stays as it is      *)
(* otherwise; the step sends no notification, starts no timer and opens    *)
(* no file. With the set the initial walk leaves, no directory other than  *)
(* the workspace root that shouldExcludeDir excludes is ever watched.      *)
(***************************************************************************)
C24_WatchedDirectories ==
    /\ [](\A d \in watched \ {workspacePath} : ~shouldExcludeDir(d))
    /\ [][CreatesDirectory =>
            /\ watched' = IF shouldExcludeDir(Head(events).name) THEN watched
                          ELSE watched \cup {Head(events).name}
            /\ sent' = sent /\ calls' = calls
            /\ timers' = timers /\ debounceMap' = debounceMap
            /\ openFiles' = openFiles /\ openCalls' = openCalls]_vars

\* The loop has processed the Create events of a new directory, which it
\* watches now, and of a new node_modules, which it does not watch.
C24_Witness ==
    /\ handled.n = 2 /\ nEvents = 2
    /\ exists = {PathA, PathDir, PathNM}
    /\ PathDir \in watched /\ PathNM \notin watched

(***************************************************************************)
(* internal/tools/find-references.go, stage 3: the references of one file  *)
(* grouped by scope.                                                       *)
(***************************************************************************)
\* ScopeIdentifier uniquely identifies a scope (function, method, etc.) in a file
ScopeIdentifier(uri, startLine, endLine) ==
    [URI |-> uri, StartLine |-> startLine, EndLine |-> endLine]

ReferencePosition(line, character) == [Line |-> line, Character |-> character]

\* Lines of context before and after a reference outside every symbol.
contextLines == 5

\* GetDefinitionWithContext: the location of the text around the reference
\* line, or an error when the file has no such line.
GetDefinitionWithContext(fileLines, ref, context) ==
    LET refLine == ref.line
        startLine == IF refLine - context < 0 THEN 0 ELSE refLine - context
        endLine == IF refLine + context >= Len(fileLines) THEN Len(fileLines) - 1
                   ELSE refLine + context
        first == IF startLine > endLine THEN endLine ELSE startLine
    IN  IF refLine < 0 \/ refLine >= Len(fileLines)
        THEN [err |-> TRUE, range |-> Range(0, 0, 0, 0)]
        ELSE [err |-> FALSE,
              range |-> Range(first, 0, endLine,
                              IF endLine >= 0 /\ endLine < Len(fileLines)
                              THEN Len(fileLines[endLine + 1]) ELSE 0)]

\* The document symbols stage 3 searches: none when the server answered
\* with SymbolInformation.
docSymbolsOf(symbols) ==
    IF Len(symbols) > 0 /\ ~symbols[1].isDocumentSymbol THEN <<>> ELSE symbols

\* The search for the symbol containing the reference, made when there are
\* document symbols.
containingSymbolOf(docSymbols, ref) ==
    IF Len(docSymbols) > 0 THEN findSymbolContainingPosition(docSymbols, ref)
    ELSE [symbol |-> NilSymbol, found |-> FALSE]

\* One reference added to the maps of its file: scopeInfos and scopeTexts
\* are written for a new scopeID only (a text is given as the range it is
\* the text of), scopeRefs gets the position appended.
groupReference(g, ref, uri, docSymbols, fileLines) ==
    LET s == containingSymbolOf(docSymbols, ref)
        c == GetDefinitionWithContext(fileLines, ref, contextLines)
        scopeRange == IF s.found THEN s.symbol.range ELSE c.range
        scopeID == ScopeIdentifier(uri, scopeRange.start.line, scopeRange.end.line)
        name == IF s.found THEN s.symbol.name ELSE <<"Context near L", ref.line + 1>>
        new == scopeID \notin DOMAIN g.scopeInfos
        position == ReferencePosition(ref.line, ref.character)
    IN  IF ~s.found /\ c.err THEN g
        ELSE [scopeInfos |-> [id \in DOMAIN g.scopeInfos \cup {scopeID} |->
                                 IF id = scopeID /\ new
                                 THEN [Name |-> name, HasKind |-> s.found]
                                 ELSE g.scopeInfos[id]],
              scopeTexts |-> [id \in DOMAIN g.scopeTexts \cup {scopeID} |->
                                 IF id = scopeID /\ new THEN scopeRange
                                 ELSE g.scopeTexts[id]],
              scopeRefs |-> [id \in DOMAIN g.scopeRefs \cup {scopeID} |->
                                IF id = scopeID
                                THEN (IF id \in DOMAIN g.scopeRefs THEN g.scopeRefs[id]
                                      ELSE <<>>) \o <<position>>
                                ELSE g.scopeRefs[id]]]

RECURSIVE groupLoop(_, _, _, _, _, _)
\* for _, ref := range fileRefs, from the i-th reference on.
groupLoop(g, i, fileRefs, uri, docSymbols, fileLines) ==
    IF i > Len(fileRefs) THEN g
    ELSE groupLoop(groupReference(g, fileRefs[i], uri, docSymbols, fileLines), i + 1,
                   fileRefs, uri, docSymbols, fileLines)

\* call is [uri, symbols, fileRefs, fileLines], fileRefs sorted by position.
groupReferences(call) ==
    groupLoop([scopeInfos |-> <<>>, scopeTexts |-> <<>>, scopeRefs |-> <<>>], 1,
              call.fileRefs, call.uri, docSymbolsOf(call.symbols), call.fileLines)

(***************************************************************************)
(* The grouping as a specification: a file of a few or of many lines, its  *)
(* symbols, and one to three references in it.                             *)
(***************************************************************************)
\* A file of n lines, the k-th of them k characters long.
FileOfLines(n) == [k \in 1..n |-> Repeat("x", k)]

GroupFiles == {FileOfLines(MaxLine + 1), FileOfLines(MaxLine + 9)}

GroupSymbols ==
    {<<>>, ExampleSymbols, <<SymbolInformation("flat", Range(0, 0, 3, 0))>>}
        \cup {<<DocumentSymbol("a", r, <<>>), DocumentSymbol("b", q, <<>>)>> :
                r \in ScopeRanges, q \in ScopeRanges}

RefPositions == {Position(l, c) : l \in 0..MaxLine, c \in 0..MaxChar}

Before(p, q) == p.line < q.line \/ (p.line = q.line /\ p.character < q.character)

GroupRefs ==
    {<<p>> : p \in RefPositions}
        \cup {r \in {<<p, q>> : p \in RefPositions, q \in RefPositions} : Before(r[1], r[2])}

InitGroup ==
    /\ WatcherIdle
    /\ input \in {[uri |-> URI(PathA), symbols |-> s, fileRefs |-> r, fileLines |-> f] :
                    s \in GroupSymbols, r \in GroupRefs, f \in GroupFiles}

GroupReferencesCall ==
    /\ output = <<>>
    /\ output' = groupReferences(input)
    /\ UNCHANGED <<input, watcherVars>>

NextGroup == GroupReferencesCall

SpecGroup == InitGroup /\ [][NextGroup]_vars

\* The enclosing range a reference of the call resolves to: the range of the
\* symbol found for it, or the fallback context window.
Resolved(ref) ==
    LET s == containingSymbolOf(docSymbolsOf(input.symbols), ref)
    IN  IF s.found THEN [symbol |-> s.symbol, range |-> s.symbol.range]
        ELSE [symbol |-> NilSymbol,
              range |-> GetDefinitionWithContext(input.fileLines, ref, contextLines).range]

\* The scope entries the reference is listed under.
ScopesOf(ref) ==
    {id \in DOMAIN output.scopeRefs :
        \E k \in 1..Len(output.scopeRefs[id]) :
            output.scopeRefs[id][k] = ReferencePosition(ref.line, ref.character)}

Refs == {input.fileRefs[k] : k \in 1..Len(input.fileRefs)}

(***************************************************************************)
(* C25. Scope grouping. Within one file every reference is listed under    *)
(* one ScopeIdentifier; two references are listed under the same one if    *)
(* and only if their resolved enclosing ranges (the symbol's range, or the *)
(* fallback context window) are identical; and references resolved to two  *)
(* different symbols are never listed under one scope entry, which has a   *)
(* single name and text.                                                   *)
(***************************************************************************)
C25_ScopeGrouping ==
    Returned =>
        /\ \A p \in Refs : Cardinality(ScopesOf(p)) = 1
        /\ \A p, q \in Refs :
              (ScopesOf(p) = ScopesOf(q)) <=> (Resolved(p).range = Resolved(q).range)
        /\ \A p, q \in Refs :
              Resolved(p).symbol # Resolved(q).symbol => ScopesOf(p) # ScopesOf(q)

(***************************************************************************)
(* The rendering of long scopes as a specification: scopes of 51 to        *)
(* 50 + MaxLongExtra lines, numbered lines but for one line of any content *)
(* of ShortLines, with one or two reference offsets of HighlightOffsets.   *)
(***************************************************************************)
HighlightOffsets == {2, 10, 11, 30, 50}

\* NumberedLines(n) with the line of 0-based offset a reading l.
LinesWith(n, a, l) == [k \in 1..n |-> IF k = a + 1 THEN l ELSE NumberedLines(n)[k]]

HighlightCalls ==
    {[scopeLines |-> LinesWith(n, a, l), highlightLineIndices |-> h, startLine |-> 0,
      showLineNumbers |-> b] :
        n \in 51..(50 + MaxLongExtra), a \in HighlightOffsets,
        l \in ShortLines \cup {<<"l">>},
        h \in {<<x>> : x \in HighlightOffsets}
                \cup {g \in {<<x, y>> : x \in HighlightOffsets, y \in HighlightOffsets} :
                        g[1] <= g[2]},
        b \in BOOLEAN}

InitHighlight ==
    /\ WatcherIdle
    /\ input \in HighlightCalls

NextHighlight == FormatScopeCall

SpecHighlight == InitHighlight /\ [][NextHighlight]_vars

\* The rendered line carries the highlight marker '>': after the number when
\* there are line numbers, in front of the line when there are none.
Marked(line) ==
    IF input.showLineNumbers
    THEN \E k \in 1..Len(line) :
            /\ line[k] = ">"
            /\ k > 1 /\ IsDigit(line[k - 1])
            /\ \A m \in 1..(k - 1) : line[m] = " " \/ IsDigit(line[m])
    ELSE Len(line) >= 5 /\ line[5] = ">"

(***************************************************************************)
(* C26. Highlight remapping under truncation. For a scope of more than 50  *)
(* lines the rendered lines that carry the highlight marker are exactly    *)
(* the images of the highlighted offsets: every reference line is kept and *)
(* marked, no other kept line is marked, and a skip-marker line is never   *)
(* marked.                                                                 *)
(***************************************************************************)
C26_HighlightRemapping ==
    (Returned /\ Len(input.scopeLines) > 50) =>
        \A K \in {KeptByRule} :
            \A items \in {InOrder(K \cup RunStarts(K))} :
                /\ ~output.panic
                /\ Len(output.lines) = Len(items)
                /\ \A i \in 0..(Len(input.scopeLines) - 1) : IsReference(i) => i \in K
                /\ \A j \in 1..Len(items) :
                       Marked(output.lines[j]) <=> (items[j] \in K /\ IsReference(items[j]))

\* The offsets of the lines of the scope that the rendering keeps: all of
\* them in a scope of at most 50 lines.
KeptOffsets ==
    IF Len(input.scopeLines) > 50 THEN KeptByRule ELSE 0..(Len(input.scopeLines) - 1)

\* The number a rendered line is displayed with: the digits in front of its
\* marker, or nothing when the line does not begin with a number and a marker.
DisplayedNumber(line) ==
    LET s == SkipBlanks(line)
        stops == {k \in 1..Len(s) : ~IsDigit(s[k])}
    IN  IF stops = {} \/ MinOf(stops) = 1 \/ s[MinOf(stops)] \notin {">", "|"} THEN <<>>
        ELSE SubSeq(s, 1, MinOf(stops) - 1)

(***************************************************************************)
(* C27. Line-number continuity. In a rendering with line numbers every     *)
(* kept source line is displayed with the number scopeStartLine + 1 + its  *)
(* original index in the scope, before and after any skip marker.          *)
(***************************************************************************)
C27_LineNumberContinuity ==
    (Returned /\ input.showLineNumbers) =>
        \A K \in {KeptOffsets} :
            \A items \in {InOrder(K \cup RunStarts(K))} :
                /\ ~output.panic
                /\ Len(output.lines) = Len(items)
                /\ \A j \in 1..Len(items) :
                       items[j] \in K =>
                           DisplayedNumber(output.lines[j])
                               = Itoa(input.startLine + 1 + items[j])

\* The widths of a range as integers, without the 32-bit wrap.
TrueLineSpan(r) == r.end.line - r.start.line

TrueCharSpan(r) == r.end.character - r.start.character

(***************************************************************************)
(* C28. Tie-break arithmetic. The line span and the character span that    *)
(* findSymbolContainingPosition compares for a candidate node are the true *)
(* non-negative widths of its range: the unsigned subtraction              *)
(* end.character - start.character does not wrap, also for a range of      *)
(* several lines whose end character is smaller than its start character;  *)
(* so that of two candidate nodes with equal line span the one chosen is   *)
(* the one with the narrower range.                                        *)
(***************************************************************************)
C28_TieBreakArithmetic ==
    (Returned /\ Len(input.symbols) = 2) =>
        \A C \in {Candidates(input.symbols, input.targetPos)} :
            (C = {input.symbols[1], input.symbols[2]}) =>
                /\ \A n \in C :
                      /\ LineSpan(n.range) = TrueLineSpan(n.range)
                      /\ CharSpan(n.range) = TrueCharSpan(n.range)
                /\ TrueLineSpan(input.symbols[1].range) = TrueLineSpan(input.symbols[2].range)
                      => /\ output.found
                         /\ \A n \in C :
                                TrueCharSpan(output.symbol.range) <= TrueCharSpan(n.range)

(***************************************************************************)
(* matchesPattern for a pattern with a base path, as a specification: a    *)
(* call with a path of the workspace, a base path given as a directory or  *)
(* as its URI, and a pattern of GlobPatterns, and its return.              *)
(***************************************************************************)
PathDeep == PathDir \o <<"/", "d", "/", "g", ".", "g", "o">>

PathBeside == PathDir \o <<"x", "/", "f", ".", "g", "o">>

RelativePaths ==
    {PathA, PathDoc, PathLast, PathDir, PathSub, PathDeep, PathBeside, PathNMFile}

BasePaths == {workspacePath, PathDir, URI(PathDir), PathNM}

InitRelative ==
    /\ WatcherIdle
    /\ input \in [path : RelativePaths, basePath : BasePaths, pattern : GlobPatterns]

MatchesRelativePatternCall ==
    /\ output = <<>>
    /\ output' = [matched |-> matchesPattern(input.path,
                                 [basePath |-> input.basePath,
                                  pattern |-> input.pattern.text])]
    /\ UNCHANGED <<input, watcherVars>>

NextRelative == MatchesRelativePatternCall

SpecRelative == InitRelative /\ [][NextRelative]_vars

\* The directory a base path names.
BaseDirectory == TrimPrefix(input.basePath, FileScheme)

\* path is the directory dir or lies below it.
Under(dir, path) == path = dir \/ HasPrefix(path, dir \o <<"/">>)

(***************************************************************************)
(* C29. Base-path confinement. For a pattern with a base path,             *)
(* matchesPattern returns true only for paths located under the base path: *)
(* a path outside the base directory, whose relative form starts with      *)
(* "..", never matches, whatever the pattern text.                         *)
(***************************************************************************)
C29_BasePathConfinement ==
    (Returned /\ output.matched) =>
        /\ Under(BaseDirectory, input.path)
        /\ ~HasPrefix(Rel(BaseDirectory, input.path), <<".", ".">>)

(***************************************************************************)
(* Files written and replaced: the watcher of a workspace whose files are  *)
(* changed, and saved by removing the file and creating it again.          *)
(***************************************************************************)
DeletePaths == {PathA, PathDot}

\* The file is replaced by a new one of the same name: the event source
\* reports the removal and the creation in turn.
FsReplace(p) ==
    /\ p \in exists /\ p \in FilePaths
    /\ loop = "select" /\ ~srcClosed
    /\ nEvents < MaxEvents
    /\ events' = IF Dir(p) \in watched
                 THEN events \o <<[name |-> p, op |-> {"Remove"}],
                                  [name |-> p, op |-> {"Create"}]>>
                 ELSE events
    /\ nEvents' = nEvents + 1
    /\ UNCHANGED <<toolVars, lockVars, exists, clientVars, regVars, loopVars, debounceVars,
                   notifyVars>>

NextDelete ==
    \/ \E p \in DeletePaths : FsWrite(p)
    \/ \E p \in DeletePaths : FsReplace(p)
    \/ regCalls < MaxRegCalls /\ AddRegistrations(<<RegGoAll>>)
    \/ \E i \in 1..Len(walks) : WalkStep(i)
    \/ LoopEvent
    \/ \E i \in 1..Len(timers) : TimerFire(i)
    \/ \E i \in 1..Len(timers) : TimerCleanup(i)
    \/ Tick

SpecDelete == Init /\ [][NextDelete]_vars

(***************************************************************************)
(* C30. Delete versus pending timers. Once a Deleted notification for a    *)
(* path has been dispatched, no Changed or Created notification for that   *)
(* path is dispatched afterwards unless a new filesystem event for the     *)
(* path arrives after the delete: a debounce timer that was pending for    *)
(* the path when the delete was processed does not fire, so that no stale  *)
(* notification is sent.                                                   *)
(***************************************************************************)
C30_NoStaleAfterDelete ==
    \A i \in handled.pendingAtDelete : ~Fired(i)

=============================================================================
